---- MODULE Spec2Model ----
(***************************************************************************)
(* x-trend-digest: the two-tier memory store (scripts/memory_store.py) and *)
(* the bookmark store (scripts/bookmarks_store.py).                        *)
(*                                                                         *)
(* The log file is modelled as a sequence of units.  A persisted line      *)
(* occupies LineLen units; its last unit carries the newline.  A write     *)
(* system call on a descriptor opened with O_APPEND ('a') appends its data *)
(* atomically; a write on a descriptor opened with 'w' writes at the       *)
(* descriptor's own offset and overwrites what is there.  read_text() is   *)
(* one snapshot of the file.  Time is counted in days.                     *)
(***************************************************************************)
EXTENDS Integers, Sequences, FiniteSets, TLC

\* ------------------------------------------------------------------ bounds
NProcs == 2
MaxAppends == 2
MaxItems == 1
MaxLines == 2
MaxTick == 1
MaxBatch == 2
MaxDiscovered == 3

\* ------------------------------------------------------- program constants
PICK_TTL_DAYS == 30
RANKED_TTL_DAYS == 3

Procs == 1..NProcs
NoProc == 0

\* Keys as normalize.key_for and append derive them; a url-derived key is
\* longer than a tweet key, so its line is longer.
TweetKey(id) == "tweet:" \o id
UrlKeys == {"url:a"}
NoKey == ""
NoId == ""
NoTier == "missing"
Tiers == {"pick", "ranked"}
OtherTier == "other"

\* ------------------------------------------------------------ persisted lines
\* What one line of the log holds: a record object, JSON that is not an
\* object (a number, a string, null, a list), or text that is not JSON.
\* tsk tells what datetime.fromisoformat makes of seen_at: "aware" (a UTC
\* timestamp, as append writes it; seen_at is then the day), "naive" (parses,
\* without a time zone) or "bad" (missing or unparseable).
Obj(key, tier, tsk, seen) ==
  [kind |-> "obj", key |-> key, tier |-> tier, tsk |-> tsk, seen_at |-> seen]
NonObj == [kind |-> "nonobj", key |-> NoKey, tier |-> NoTier, tsk |-> "bad", seen_at |-> 0]
Garbage == [kind |-> "garbage", key |-> NoKey, tier |-> NoTier, tsk |-> "bad", seen_at |-> 0]

\* Bookmarks are kept by tweet_id: a tweet id, or "reddit:" and a post id.
BkIds == {"1", "reddit:x"}
LongKeys == UrlKeys \cup {"reddit:x"}

LineLen(r) == IF r.kind = "obj" /\ r.key \in LongKeys THEN 2 ELSE 1

Unit(r, i) == [rec |-> r, part |-> i]
LineUnits(r) == [i \in 1..LineLen(r) |-> Unit(r, i)]

RECURSIVE Flatten(_)
Flatten(lines) ==
  IF lines = <<>> THEN <<>>
  ELSE LineUnits(Head(lines)) \o Flatten(Tail(lines))

EndsLine(u) == u.part = LineLen(u.rec)

\* str.splitlines(): the data cut after every newline; a last line without a
\* newline is a line too.
RECURSIVE SplitLines(_, _)
SplitLines(data, cur) ==
  IF data = <<>> THEN (IF cur = <<>> THEN <<>> ELSE <<cur>>)
  ELSE IF EndsLine(Head(data))
       THEN <<Append(cur, Head(data))>> \o SplitLines(Tail(data), <<>>)
       ELSE SplitLines(Tail(data), Append(cur, Head(data)))

\* json.loads(line) succeeds iff the line is exactly one persisted JSON value.
Parses(line) ==
  /\ line # <<>>
  /\ line = LineUnits(line[1].rec)
  /\ line[1].rec.kind # "garbage"

RECURSIVE ParseLines(_)
ParseLines(lines) ==
  IF lines = <<>> THEN <<>>
  ELSE IF Parses(Head(lines))
       THEN <<Head(lines)[1].rec>> \o ParseLines(Tail(lines))
       ELSE ParseLines(Tail(lines))

NoFile == [exists |-> FALSE, data |-> <<>>]
File(data) == [exists |-> TRUE, data |-> data]

_load_all(m) == IF ~m.exists THEN <<>> ELSE ParseLines(SplitLines(m.data, <<>>))

\* ------------------------------------------------------------------ TTL
\* rec.get('tier', 'pick'): only a missing tier defaults to "pick".
TierOf(r) == IF r.tier = NoTier THEN "pick" ELSE r.tier

PickActive(ts, t, days) == ts >= t - days
\* (mutant: the ranked tier compared with the pick cutoff)
RankedActiveMut(ts, t) == ts >= t - PICK_TTL_DAYS
RankedActive(ts, t) == ts >= t - RANKED_TTL_DAYS

\* The if/elif of load_recent and cleanup; comparing a naive timestamp with
\* the aware cutoff raises TypeError, which neither function catches.
Compares(r) == TierOf(r) \in Tiers
TierActive(r, t, days) ==
  \/ TierOf(r) = "pick" /\ PickActive(r.seen_at, t, days)
  \/ TierOf(r) = "ranked" /\ RankedActive(r.seen_at, t)

\* The records load_recent does not skip: objects with a parseable seen_at
\* and a key.
Considered(r) == r.kind = "obj" /\ r.tsk # "bad" /\ r.key # NoKey

Range(s) == {s[i] : i \in DOMAIN s}

load_recent(m, t, days) ==
  LET recs == Range(_load_all(m))
      raises == \E r \in recs : Considered(r) /\ r.tsk = "naive" /\ Compares(r)
  IN  [ok |-> ~raises,
       keys |-> IF raises THEN {}
                ELSE {r.key : r \in {x \in recs : Considered(x) /\ TierActive(x, t, days)}}]

\* (mutant: break instead of continue at a seen candidate)
RECURSIVE FilterLoopMut(_, _)
FilterLoopMut(cands, seen) ==
  IF cands = <<>> THEN <<>>
  ELSE IF Head(cands).key \in seen
       THEN <<>>
       ELSE <<Head(cands)>> \o FilterLoopMut(Tail(cands), seen)

RECURSIVE FilterLoop(_, _)
FilterLoop(cands, seen) ==
  IF cands = <<>> THEN <<>>
  ELSE IF Head(cands).key \in seen
       THEN FilterLoop(Tail(cands), seen)
       ELSE <<Head(cands)>> \o FilterLoop(Tail(cands), seen)

filter_new(cands, m, t, days) ==
  LET seen == load_recent(m, t, days)
  IN  [ok |-> seen.ok, out |-> IF seen.ok THEN FilterLoop(cands, seen.keys) ELSE <<>>]

\* ---------------------------------------------------------------- append
\* key = p.get('key') or (f"tweet:{p.get('id')}" if p.get('id') else '')
ItemKey(p) == IF p.key # NoKey THEN p.key ELSE IF p.id # NoId THEN TweetKey(p.id) ELSE NoKey

RECURSIVE AppendRecs(_, _, _)
AppendRecs(items, tier, t) ==
  IF items = <<>> THEN <<>>
  ELSE IF ItemKey(Head(items)) = NoKey
       THEN AppendRecs(Tail(items), tier, t)
       ELSE <<Obj(ItemKey(Head(items)), tier, "aware", t)>> \o AppendRecs(Tail(items), tier, t)

\* write(2) on a descriptor opened with O_APPEND.
WriteAppend(m, data) == File(m.data \o data)

\* write(2) at offset off of a descriptor opened without O_APPEND.
WriteAt(m, off, data) ==
  File(SubSeq(m.data, 1, off) \o data \o SubSeq(m.data, off + Len(data) + 1, Len(m.data)))

\* open(..., 'a') creates the file; open(..., 'w') creates or truncates it.
\* (mutant: append opens the log with 'w')
OpenAppendMut(m) == File(<<>>)
OpenAppend(m) == File(m.data)
OpenTruncate(m) == File(<<>>)

\* --------------------------------------------------------------- cleanup
\* (mutant: every tier kept for the ranked TTL)
RECURSIVE CleanupLoopMut(_, _, _)
CleanupLoopMut(recs, t, days) ==
  IF recs = <<>> THEN [ok |-> TRUE, kept |-> <<>>, removed |-> 0]
  ELSE LET r == Head(recs)
           rest == CleanupLoopMut(Tail(recs), t, days)
       IN  IF r.kind # "obj" \/ r.tsk = "bad" THEN rest
           ELSE IF r.tsk = "naive" /\ Compares(r)
                THEN [ok |-> FALSE, kept |-> <<>>, removed |-> 0]
           ELSE IF ~rest.ok THEN rest
           ELSE IF TierActive(r, t, RANKED_TTL_DAYS)
                THEN [rest EXCEPT !.kept = <<r>> \o rest.kept]
                ELSE [rest EXCEPT !.removed = rest.removed + 1]

RECURSIVE CleanupLoop(_, _, _)
CleanupLoop(recs, t, days) ==
  IF recs = <<>> THEN [ok |-> TRUE, kept |-> <<>>, removed |-> 0]
  ELSE LET r == Head(recs)
           rest == CleanupLoop(Tail(recs), t, days)
       IN  IF r.kind # "obj" \/ r.tsk = "bad" THEN rest
           ELSE IF r.tsk = "naive" /\ Compares(r)
                THEN [ok |-> FALSE, kept |-> <<>>, removed |-> 0]
           ELSE IF ~rest.ok THEN rest
           ELSE IF TierActive(r, t, days)
                THEN [rest EXCEPT !.kept = <<r>> \o rest.kept]
                ELSE [rest EXCEPT !.removed = rest.removed + 1]

\* ----------------------------------------------------------------- stats
Count(recs, tier) == Cardinality({i \in DOMAIN recs : recs[i].tier = tier})
stats(m) ==
  LET recs == _load_all(m)
      raises == \E i \in DOMAIN recs : recs[i].kind # "obj"
  IN  [ok |-> ~raises,
       total |-> IF raises THEN 0 ELSE Len(recs),
       picks |-> IF raises THEN 0
                 ELSE Cardinality({i \in DOMAIN recs : TierOf(recs[i]) = "pick"}),
       ranked |-> IF raises THEN 0 ELSE Count(recs, "ranked")]

\* ================================================================== state
VARIABLES
  now,        \* the clock, in days
  mem,        \* memory/trend-radar.jsonl: [exists, data]
  lock,       \* the process holding flock(LOCK_EX) on the log, or NoProc
  pc,         \* where each process stands in append / cleanup
  loc,        \* each process's locals: timestamp, buffered data, offset, counters
  committed,  \* the records of the append calls that have returned
  nApp,       \* append calls started
  lastMod,    \* the last modification of the log: by whom, and who held the lock
  last,       \* the last call that returned in a sequential run, with its result
  bk,         \* data/bookmarks.jsonl: [exists, data]
  saved,      \* the tweet ids of the save calls that have returned
  removed,    \* the tweet ids remove has rewritten the bookmarks without
  canon,      \* a call of canonical_url: its input, a variant of it, the results
  blocks,     \* normalize.run: the discovered blocks not yet consumed
  out,        \* normalize.run: the candidates retained so far
  seen_keys,  \* normalize.run: the keys seen in this batch
  seen_urls,  \* normalize.run: the canonical URLs seen in this batch
  seen_text,  \* normalize.run: the text hashes seen in this batch
  nstats,     \* normalize.run: stats, the per-category funnel counters
  lastIt,     \* normalize.run: it, the candidate of the last iteration, and what became of it
  fresh,      \* run.main: the candidates after the TTL filter and the merge
  run,        \* run.main: the stage of a pipeline run, its flags and its outcome
  rk,         \* a call of rank.run: its arguments and what it returned
  dyn,        \* discover: the dynamic-authors cache, the clock in hours, the last call
  cb          \* bot_handler: the last Interesting callback and what became of it

normVars == <<blocks, out, seen_keys, seen_urls, seen_text, nstats, lastIt, fresh>>
auxVars == <<rk, dyn, cb>>
pipeVars == <<canon, normVars, run, auxVars>>
vars == <<now, mem, lock, pc, loc, committed, nApp, lastMod, last, bk, saved, removed,
          pipeVars>>
concVars == <<lock, pc, loc, committed, nApp, lastMod>>
bkVars == <<bk, saved, removed>>

Epoch == PICK_TTL_DAYS

NoLoc == [ts |-> 0, tier |-> "pick", recs |-> <<>>, buf |-> <<>>, off |-> 0, removed |-> 0,
          arg |-> ""]
NoMod == [by |-> NoProc, holder |-> NoProc]
NoCall == [op |-> "none", ok |-> TRUE, keys |-> {}, tier |-> "pick", batch |-> <<>>,
           out |-> <<>>, isNone |-> FALSE, ret |-> 0, st |-> <<0, 0, 0>>,
           pre |-> NoFile, prev |-> {}]

NoRes == [ok |-> TRUE, s |-> <<>>]
NoCanon == [st |-> "idle", pair |-> FALSE, u |-> <<>>, v |-> <<>>, idq |-> <<>>,
            c |-> NoRes, cv |-> NoRes, cc |-> NoRes]
NoRun == [pc |-> "idle", platform |-> "x", dry_run |-> FALSE, reddit_enabled |-> FALSE,
          writable |-> TRUE, picks |-> <<>>, ranked_not_picked |-> <<>>,
          reddit_picks |-> <<>>, r_ranked |-> <<>>, failed |-> {}, caught |-> FALSE,
          published |-> <<>>, fresh |-> <<>>, ranked |-> <<>>, r_in |-> <<>>, llm |-> <<>>,
          send |-> FALSE, sent |-> 0, mem0 |-> NoFile]
NoStat == [in |-> 0, url_dup |-> 0, id_dup |-> 0, text_dup |-> 0, out |-> 0]
NoIt == [id |-> "", url |-> <<>>, text |-> <<>>, platform |-> "x", key |-> "",
         text_hash |-> <<>>, category |-> "", verdict |-> "none", seenKey |-> FALSE,
         seenUrl |-> FALSE, seenText |-> FALSE, before |-> NoStat, prevIds |-> {}]

NoRank == [st |-> "idle", items |-> <<>>, max |-> 0, out |-> <<>>]
\* A category the search-term table names, and one it does not.
DynCats == {"AI Coding", "OpenClaw"}
NoEntry == [present |-> FALSE, usernames |-> <<>>, cached_at |-> 0, iso |-> FALSE]
NoDynCall == [st |-> "idle", category |-> "", hit |-> FALSE, ret |-> <<>>, at |-> 0]
NoDyn == [clock |-> 0, cache |-> [c \in DynCats |-> NoEntry], st |-> "idle",
          category |-> "", hit |-> FALSE, was |-> NoEntry, found |-> <<>>, ret |-> <<>>,
          searches |-> 0, at |-> 0, n |-> 0, prev |-> NoDynCall]
NoCb == [st |-> "idle", item |-> "", was |-> FALSE, raised |-> FALSE, n |-> 0, item0 |-> "",
         pre0 |-> {}]

NormIdle ==
  /\ blocks = [cat |-> 1, n |-> 0]
  /\ out = <<>>
  /\ seen_keys = {}
  /\ seen_urls = {}
  /\ seen_text = {}
  /\ nstats = <<>>
  /\ lastIt = NoIt
  /\ fresh = <<>>

AuxIdle ==
  /\ rk = NoRank
  /\ dyn = NoDyn
  /\ cb = NoCb

PipeIdle ==
  /\ canon = NoCanon
  /\ NormIdle
  /\ run = NoRun
  /\ AuxIdle

ConcInit ==
  /\ lock = NoProc
  /\ pc = [p \in Procs |-> "idle"]
  /\ loc = [p \in Procs |-> NoLoc]
  /\ committed = [r \in {} |-> 0]
  /\ nApp = 0
  /\ lastMod = NoMod
  /\ bk = NoFile
  /\ saved = {}
  /\ removed = {}

\* ------------------------------------------------- inputs of a sequential run
SeqsUpTo(S, n) == UNION {[1..k -> S] : k \in 0..n}

\* Records as append wrote them on earlier days: at the ranked TTL and at the
\* pick TTL before the epoch.
InitAges == {RANKED_TTL_DAYS, PICK_TTL_DAYS}
InitKeys == {TweetKey("1")} \cup UrlKeys
WrittenLines == {Obj(k, t, "aware", Epoch - a) : k \in InitKeys, t \in Tiers, a \in InitAges}

Items == {[key |-> k, id |-> i] : k \in UrlKeys \cup {NoKey}, i \in {"1", NoId}}
\* normalize.run gives every candidate a key before filter_new sees it.
Cands == {[key |-> k] : k \in InitKeys}

NumLines(m) == Len(SplitLines(m.data, <<>>))

InitSeq ==
  /\ PipeIdle
  /\ now = Epoch
  /\ \E lines \in SeqsUpTo(WrittenLines, MaxLines) :
       mem \in (IF lines = <<>> THEN {NoFile} ELSE {}) \cup {File(Flatten(lines))}
  /\ ConcInit
  /\ last = NoCall

\* ------------------------------------------------ calls of a sequential run
\* A call that only reads hands its result to the caller, who takes it
\* (Return) before the next call or the next day.
Reads == {"load_recent", "filter_new", "stats"}
Ready == last.op \notin Reads

Return ==
  /\ ~Ready
  /\ last' = NoCall
  /\ UNCHANGED <<pipeVars, bkVars, now, mem, concVars>>

Tick ==
  /\ Ready
  /\ now < Epoch + MaxTick
  /\ now' = now + 1
  /\ last' = NoCall
  /\ UNCHANGED <<pipeVars, bkVars, mem, concVars>>

PrevPick == IF last.op = "append" /\ last.tier = "pick" THEN last.keys ELSE {}

CallLoadRecent ==
  LET r == load_recent(mem, now, PICK_TTL_DAYS)
  IN  /\ Ready
      /\ last' = [NoCall EXCEPT !.op = "load_recent", !.ok = r.ok, !.keys = r.keys]
      /\ UNCHANGED <<pipeVars, bkVars, now, mem, concVars>>

CallFilterNew ==
  \E batch \in SeqsUpTo(Cands, MaxBatch) :
    LET r == filter_new(batch, mem, now, PICK_TTL_DAYS)
    IN  /\ Ready
        /\ last' = [NoCall EXCEPT !.op = "filter_new", !.ok = r.ok, !.batch = batch,
                                  !.out = r.out, !.prev = PrevPick]
        /\ UNCHANGED <<pipeVars, bkVars, now, mem, concVars>>

CallStats ==
  LET r == stats(mem)
  IN  /\ Ready
      /\ last' = [NoCall EXCEPT !.op = "stats", !.ok = r.ok,
                                !.st = <<r.total, r.picks, r.ranked>>]
      /\ UNCHANGED <<pipeVars, bkVars, now, mem, concVars>>

\* append, start to return: the records are buffered and reach the file when
\* the with block closes it.
CallAppend ==
  \E items \in SeqsUpTo(Items, MaxItems), tier \in Tiers :
    LET recs == AppendRecs(items, tier, now)
    IN  /\ Ready
        /\ NumLines(mem) + Len(recs) <= MaxLines
        /\ mem' = IF recs = <<>> THEN OpenAppend(mem) ELSE WriteAppend(mem, Flatten(recs))
        /\ last' = [NoCall EXCEPT !.op = "append", !.tier = tier,
                                  !.keys = {recs[i].key : i \in DOMAIN recs}]
        /\ UNCHANGED <<pipeVars, bkVars, now, concVars>>

\* cleanup, start to return: None when the file is missing; no write when the
\* loop raises.
CallCleanup ==
  LET r == CleanupLoop(_load_all(mem), now, PICK_TTL_DAYS)
  IN  /\ Ready
      /\ mem' = IF ~mem.exists \/ ~r.ok THEN mem
                ELSE WriteAt(OpenTruncate(mem), 0, Flatten(r.kept))
      /\ last' = [NoCall EXCEPT !.op = "cleanup", !.ok = (~mem.exists \/ r.ok),
                                !.isNone = ~mem.exists,
                                !.ret = IF mem.exists /\ r.ok THEN r.removed ELSE 0,
                                !.pre = mem]
      /\ UNCHANGED <<pipeVars, bkVars, now, concVars>>

NextSeq ==
  \/ Return
  \/ Tick
  \/ CallLoadRecent
  \/ CallFilterNew
  \/ CallStats
  \/ CallAppend
  \/ CallCleanup

SpecSeq == InitSeq /\ [][NextSeq]_vars

\* ============================================ concurrent processes
\* Each process runs append and cleanup one system call at a time.  The
\* records of one call are far below the 8 KiB buffer of the file object, so
\* f.write() only fills the buffer and the data reaches the file when the
\* with block closes the file, after the finally clause released the lock.
ConcItems == {[key |-> k, id |-> i] : k \in UrlKeys \cup {NoKey}, i \in {"1", NoId}} \
             {[key |-> NoKey, id |-> NoId]}

BagAdd(b, r) == IF r \in DOMAIN b THEN [b EXCEPT ![r] = @ + 1] ELSE b @@ (r :> 1)
RECURSIVE BagAddAll(_, _)
BagAddAll(b, recs) == IF recs = <<>> THEN b ELSE BagAddAll(BagAdd(b, Head(recs)), Tail(recs))
EmptyBag == [r \in {} |-> 0]
BagOfSeq(recs) == BagAddAll(EmptyBag, recs)

Goto(p, label) == pc' = [pc EXCEPT ![p] = label]
Modified(p) == lastMod' = [by |-> p, holder |-> lock]

\* memory_store.py:99-101: mkdir, now, MEM.open('a').
AppendOpen(p, batches) ==
  /\ pc[p] = "idle"
  /\ nApp < MaxAppends
  /\ \E items \in batches, tier \in Tiers :
       loc' = [loc EXCEPT ![p] = [NoLoc EXCEPT !.ts = now, !.tier = tier,
                                               !.recs = AppendRecs(items, tier, now)]]
  /\ mem' = OpenAppend(mem)
  /\ nApp' = nApp + 1
  /\ Goto(p, "a_lock")
  /\ UNCHANGED <<pipeVars, bkVars, now, lock, committed, lastMod, last>>

\* memory_store.py:102: fcntl.flock(f, LOCK_EX) waits until the lock is free.
AppendLock(p) ==
  /\ pc[p] = "a_lock"
  /\ lock = NoProc
  /\ lock' = p
  /\ Goto(p, "a_write")
  /\ UNCHANGED <<pipeVars, bkVars, now, mem, loc, committed, nApp, lastMod, last>>

\* memory_store.py:104-114: the loop writes into the buffer.
AppendWrite(p) ==
  /\ pc[p] = "a_write"
  /\ loc' = [loc EXCEPT ![p].buf = Flatten(loc[p].recs)]
  /\ Goto(p, "a_unlock")
  /\ UNCHANGED <<pipeVars, bkVars, now, mem, lock, committed, nApp, lastMod, last>>

\* memory_store.py:115-116: finally: fcntl.flock(f, LOCK_UN).
AppendUnlock(p) ==
  /\ pc[p] = "a_unlock"
  /\ lock' = NoProc
  /\ Goto(p, "a_close")
  /\ UNCHANGED <<pipeVars, bkVars, now, mem, loc, committed, nApp, lastMod, last>>

\* memory_store.py:101: leaving the with block closes f, which flushes the
\* buffer with one write(2); append then returns.
AppendClose(p) ==
  /\ pc[p] = "a_close"
  /\ IF loc[p].buf = <<>>
     THEN UNCHANGED <<mem, lastMod>>
     ELSE mem' = WriteAppend(mem, loc[p].buf) /\ Modified(p)
  /\ committed' = BagAddAll(committed, loc[p].recs)
  /\ loc' = [loc EXCEPT ![p] = NoLoc]
  /\ Goto(p, "idle")
  /\ UNCHANGED <<pipeVars, bkVars, now, lock, nApp, last>>

\* memory_store.py:121-142: the file exists; _load_all reads it and the loop
\* sorts its records into kept and removed.
CleanupRead(p) ==
  /\ pc[p] = "idle"
  /\ mem.exists
  /\ LET r == CleanupLoop(_load_all(mem), now, PICK_TTL_DAYS)
     IN  /\ r.ok
         /\ loc' = [loc EXCEPT ![p] = [NoLoc EXCEPT !.recs = r.kept, !.removed = r.removed]]
  /\ Goto(p, "c_open")
  /\ UNCHANGED <<pipeVars, bkVars, now, mem, lock, committed, nApp, lastMod, last>>

\* memory_store.py:121-122: no file, cleanup returns None.
CleanupMissing(p) ==
  /\ pc[p] = "idle"
  /\ ~mem.exists
  /\ UNCHANGED vars

\* memory_store.py:145: MEM.open('w') truncates the file, at offset 0.
CleanupOpen(p) ==
  /\ pc[p] = "c_open"
  /\ mem' = OpenTruncate(mem)
  /\ IF mem.data = <<>> THEN UNCHANGED lastMod ELSE Modified(p)
  /\ loc' = [loc EXCEPT ![p].off = 0]
  /\ Goto(p, "c_lock")
  /\ UNCHANGED <<pipeVars, bkVars, now, lock, committed, nApp, last>>

\* memory_store.py:146
CleanupLock(p) ==
  /\ pc[p] = "c_lock"
  /\ lock = NoProc
  /\ lock' = p
  /\ Goto(p, "c_write")
  /\ UNCHANGED <<pipeVars, bkVars, now, mem, loc, committed, nApp, lastMod, last>>

\* memory_store.py:148: f.write(content) fills the buffer.
CleanupWrite(p) ==
  /\ pc[p] = "c_write"
  /\ loc' = [loc EXCEPT ![p].buf = Flatten(loc[p].recs)]
  /\ Goto(p, "c_unlock")
  /\ UNCHANGED <<pipeVars, bkVars, now, mem, lock, committed, nApp, lastMod, last>>

\* memory_store.py:149-150
CleanupUnlock(p) ==
  /\ pc[p] = "c_unlock"
  /\ lock' = NoProc
  /\ Goto(p, "c_close")
  /\ UNCHANGED <<pipeVars, bkVars, now, mem, loc, committed, nApp, lastMod, last>>

\* memory_store.py:145,151: closing f flushes the buffer at the descriptor's
\* offset; cleanup returns removed.
CleanupClose(p) ==
  /\ pc[p] = "c_close"
  /\ IF loc[p].buf = <<>>
     THEN UNCHANGED <<mem, lastMod>>
     ELSE mem' = WriteAt(mem, loc[p].off, loc[p].buf) /\ Modified(p)
  /\ loc' = [loc EXCEPT ![p] = NoLoc]
  /\ Goto(p, "idle")
  /\ UNCHANGED <<pipeVars, bkVars, now, lock, committed, nApp, last>>

\* load_recent by a process that is in no write: one read_text() of the file,
\* without the lock.  prev keeps the keys whose append had returned.
ConcLoad(p) ==
  /\ pc[p] = "idle"
  /\ LET r == load_recent(mem, now, PICK_TTL_DAYS)
     IN  last' = [NoCall EXCEPT !.op = "load_recent", !.ok = r.ok, !.keys = r.keys,
                                !.prev = {x.key : x \in DOMAIN committed}]
  /\ UNCHANGED <<pipeVars, bkVars, now, mem, concVars>>

InitConc ==
  /\ PipeIdle
  /\ now = Epoch
  /\ mem \in {NoFile, File(<<>>)}
  /\ ConcInit
  /\ last = NoCall

OneItem == [1..1 -> ConcItems]

NextAppend ==
  \E p \in Procs :
    \/ AppendOpen(p, OneItem)
    \/ AppendLock(p)
    \/ AppendWrite(p)
    \/ AppendUnlock(p)
    \/ AppendClose(p)
    \/ ConcLoad(p)

SpecAppend == InitConc /\ [][NextAppend]_vars

Next ==
  \E p \in Procs :
    \/ AppendOpen(p, SeqsUpTo(ConcItems, MaxItems))
    \/ AppendLock(p)
    \/ AppendWrite(p)
    \/ AppendUnlock(p)
    \/ AppendClose(p)
    \/ CleanupMissing(p)
    \/ CleanupRead(p)
    \/ CleanupOpen(p)
    \/ CleanupLock(p)
    \/ CleanupWrite(p)
    \/ CleanupUnlock(p)
    \/ CleanupClose(p)
    \/ ConcLoad(p)

Spec == InitConc /\ [][Next]_vars

\* ================================================== the bookmark store
\* bookmarks_store.py takes no lock.  A bookmark line is a record object whose
\* key field stands for its tweet_id.
BkRec(tid) == [kind |-> "obj", key |-> tid]
BkFilter(recs, tid) == SelectSeq(recs, LAMBDA r : r.key # tid)

\* bookmarks_store.py:52-62: open('a') and f.write into the buffer.
BkSaveOpen(p) ==
  /\ pc[p] = "idle"
  /\ nApp < MaxAppends
  /\ \E tid \in BkIds :
       loc' = [loc EXCEPT ![p] = [NoLoc EXCEPT !.arg = tid, !.buf = LineUnits(BkRec(tid))]]
  /\ bk' = OpenAppend(bk)
  /\ nApp' = nApp + 1
  /\ Goto(p, "s_close")
  /\ UNCHANGED <<pipeVars, now, mem, lock, committed, lastMod, last, saved, removed>>

\* bookmarks_store.py:61-63: the with block closes f (one write(2)); save returns.
BkSaveClose(p) ==
  /\ pc[p] = "s_close"
  /\ bk' = WriteAppend(bk, loc[p].buf)
  /\ saved' = saved \cup {loc[p].arg}
  /\ loc' = [loc EXCEPT ![p] = NoLoc]
  /\ Goto(p, "idle")
  /\ UNCHANGED <<pipeVars, now, mem, lock, committed, nApp, lastMod, last, removed>>

\* bookmarks_store.py:68-71: _load_all, filter; False when nothing matched.
BkRemoveRead(p) ==
  /\ pc[p] = "idle"
  /\ \E tid \in BkIds :
       LET records == _load_all(bk)
           filtered == BkFilter(records, tid)
       IN  IF Len(filtered) = Len(records)
           THEN UNCHANGED <<pc, loc>>
           ELSE /\ loc' = [loc EXCEPT ![p] = [NoLoc EXCEPT !.arg = tid, !.recs = filtered]]
                /\ Goto(p, "r_open")
  /\ UNCHANGED <<pipeVars, now, mem, lock, committed, nApp, lastMod, last, bkVars>>

\* bookmarks_store.py:72: write_text opens the file with 'w', which truncates it.
BkRemoveOpen(p) ==
  /\ pc[p] = "r_open"
  /\ bk' = OpenTruncate(bk)
  /\ Goto(p, "r_write")
  /\ UNCHANGED <<pipeVars, now, mem, lock, loc, committed, nApp, lastMod, last, saved, removed>>

\* bookmarks_store.py:72-76: write_text writes the kept lines at offset 0 and
\* closes; remove returns True.
BkRemoveWrite(p) ==
  /\ pc[p] = "r_write"
  /\ bk' = IF loc[p].recs = <<>> THEN bk ELSE WriteAt(bk, 0, Flatten(loc[p].recs))
  /\ removed' = removed \cup {loc[p].arg}
  /\ loc' = [loc EXCEPT ![p] = NoLoc]
  /\ Goto(p, "idle")
  /\ UNCHANGED <<pipeVars, now, mem, lock, committed, nApp, lastMod, last, saved>>

NextBk ==
  \E p \in Procs :
    \/ BkSaveOpen(p)
    \/ BkSaveClose(p)
    \/ BkRemoveRead(p)
    \/ BkRemoveOpen(p)
    \/ BkRemoveWrite(p)

SpecBk == InitConc /\ [][NextBk]_vars

\* A store as earlier versions or a damaged disk left it: lines that are not
\* JSON, JSON that is no object, records without key, tier or seen_at.
LegacyLines ==
  {Garbage, NonObj} \cup
  {Obj(k, t, "aware", Epoch - a) : k \in {TweetKey("1"), NoKey},
                                   t \in Tiers \cup {OtherTier, NoTier}, a \in InitAges} \cup
  {Obj(k, t, tsk, 0) : k \in {TweetKey("1"), NoKey},
                       t \in Tiers \cup {OtherTier, NoTier}, tsk \in {"naive", "bad"}}

InitLegacy ==
  /\ PipeIdle
  /\ now = Epoch
  /\ \E lines \in SeqsUpTo(LegacyLines, MaxLines) :
       mem \in (IF lines = <<>> THEN {NoFile} ELSE {}) \cup {File(Flatten(lines))}
  /\ ConcInit
  /\ last = NoCall

SpecLegacy == InitLegacy /\ [][NextSeq]_vars

\* ================================================================ claims
Records(m) == Range(_load_all(m))
TtlOf(tier) == IF tier = "ranked" THEN RANKED_TTL_DAYS ELSE PICK_TTL_DAYS
Age(r) == now - r.seen_at
\* The keys with at least one record whose own tier's TTL has not elapsed.
ActiveKeys(m) == {r.key : r \in {x \in Records(m) : Age(x) <= TtlOf(x.tier)}}

\* C5: load_active_keys (load_recent) returns exactly the keys that have at
\* least one record whose own tier's TTL has not elapsed at now, for a store of
\* records written by append ("pick" or "ranked").
C5_LoadRecentIsActiveKeys ==
  last.op = "load_recent" => last.ok /\ last.keys = ActiveKeys(mem)

\* A ranked record seen 4 days ago is excluded, a pick record seen 4 days ago
\* is included, in one load.
C5_Witness ==
  /\ last.op = "load_recent"
  /\ \E r \in Records(mem) :
       /\ r.tier = "ranked" /\ Age(r) = RANKED_TTL_DAYS + 1 /\ r.key \notin last.keys
  /\ \E r \in Records(mem) :
       /\ r.tier = "pick" /\ Age(r) = RANKED_TTL_DAYS + 1 /\ r.key \in last.keys

\* C7: a filter_new that immediately follows append(items, tier="pick")
\* returns its batch, in input order, without every candidate whose key was
\* appended and with every candidate whose key is not active.
C7_FilterNewRoundTrip ==
  last.op = "filter_new" =>
    LET NotActive(c) == c.key \notin ActiveKeys(mem)
    IN  /\ last.ok
        /\ last.out = SelectSeq(last.batch, NotActive)
        /\ \A i \in DOMAIN last.out : last.out[i].key \notin last.prev

\* The batch holds the appended key first and then a key that is not active:
\* the first is dropped, the second returned.
C7_Witness ==
  /\ last.op = "filter_new"
  /\ Len(last.batch) = 2
  /\ last.batch[1].key \in last.prev
  /\ last.out = <<last.batch[2]>>

Unrecognized(r) == r.kind = "obj" /\ r.tier \notin Tiers
WithinPickTtl(r) == r.tsk = "aware" /\ Age(r) <= PICK_TTL_DAYS

\* C6: a record whose tier is unrecognized (missing, or any value other than
\* "pick" and "ranked") is treated as a "pick" record: its key is active in
\* load_active_keys for the pick TTL, and cleanup keeps it for the pick TTL.
C6_UnrecognizedTierIsPick ==
  /\ (last.op = "load_recent" /\ last.ok) =>
       \A r \in Records(mem) :
         Unrecognized(r) /\ WithinPickTtl(r) /\ r.key # NoKey => r.key \in last.keys
  /\ (last.op = "cleanup" /\ last.ok /\ ~last.isNone) =>
       \A r \in Records(last.pre) :
         Unrecognized(r) /\ WithinPickTtl(r) => r \in Records(mem)

\* C8: cleanup returns the number of records it physically removed (records
\* before minus records after) and leaves exactly the records whose tier TTL
\* has not elapsed, for every store content: a missing file, records with an
\* unparseable seen_at, malformed lines.
C8_CleanupCountsRemoved ==
  (last.op = "cleanup" /\ last.ok) =>
    LET Live(r) == r.kind = "obj" /\ r.tsk = "aware" /\ Age(r) <= TtlOf(TierOf(r))
    IN  /\ ~last.isNone
        /\ last.ret = NumLines(last.pre) - NumLines(mem)
        /\ _load_all(mem) = SelectSeq(_load_all(last.pre), Live)

\* C9: a malformed persisted line (not JSON, JSON that is no record object, a
\* record with a missing or unparseable field) never makes load_active_keys,
\* filter_new, stats or cleanup fail, and stats still counts the well-formed
\* records of the other lines.
C9_MalformedLinesTolerated ==
  /\ last.op \in {"load_recent", "filter_new", "stats", "cleanup"} => last.ok
  /\ last.op = "stats" =>
       last.st[1] = Cardinality({i \in DOMAIN _load_all(mem) : _load_all(mem)[i].kind = "obj"})

\* C30: cleanup does not change which keys are active: for every store
\* content, load_recent at the instant of the cleanup gives the same outcome
\* on the file before the cleanup and on the file after it, and a second
\* cleanup at that instant removes nothing and leaves the file as it is.
C30_CleanupKeepsActiveKeys ==
  last.op = "cleanup" =>
    /\ load_recent(mem, now, PICK_TTL_DAYS) = load_recent(last.pre, now, PICK_TTL_DAYS)
    /\ LET again == CleanupLoop(_load_all(mem), now, PICK_TTL_DAYS)
       IN  IF again.ok
           THEN again.removed = 0 /\ (mem.exists => Flatten(again.kept) = mem.data)
           ELSE mem = last.pre

\* A cleanup that removed a record from a store holding a record of a missing
\* or unrecognized tier and a key that is active before and after.
C30_Witness ==
  /\ last.op = "cleanup" /\ last.ok /\ last.ret > 0
  /\ \E r \in Records(last.pre) : Unrecognized(r)
  /\ load_recent(last.pre, now, PICK_TTL_DAYS).keys # {}
  /\ load_recent(mem, now, PICK_TTL_DAYS).keys # {}

AllIdle == \A p \in Procs : pc[p] = "idle"
CommittedKeys == {r.key : r \in DOMAIN committed}

\* C1: concurrent append calls of one record each, on a store that starts
\* empty, leave exactly the records of the calls that returned, each on a
\* well-formed line of its own (none truncated, merged or lost), all returned
\* by load_recent; when all N calls have returned the log holds N records.
C1_ConcurrentAppendsIntact ==
  LET lines == SplitLines(mem.data, <<>>)
  IN  /\ \A i \in DOMAIN lines : Parses(lines[i])
      /\ BagOfSeq(_load_all(mem)) = committed
      /\ load_recent(mem, now, PICK_TTL_DAYS).keys = CommittedKeys
      /\ (AllIdle /\ nApp = MaxAppends) => Len(lines) = MaxAppends

\* All N calls are under way or done, and one of them has just written its
\* record while another process held the lock.
C1_Witness ==
  /\ nApp = MaxAppends
  /\ NumLines(mem) >= 1
  /\ lastMod.by # NoProc
  /\ lastMod.holder \notin {NoProc, lastMod.by}

\* C2: append and cleanup modify the log (truncation, write, flush of
\* buffered data) only while they hold the exclusive lock.
C2_WritersHoldLock ==
  lastMod.by # NoProc => lastMod.holder = lastMod.by

\* C3: once append has returned for a record, the record stays in the store
\* (every later load sees its key) while its TTL has not elapsed, whatever a
\* concurrent cleanup does.
C3_AppendedRecordsStay ==
  AllIdle => \A r \in DOMAIN committed :
               Age(r) <= TtlOf(r.tier) => r.key \in load_recent(mem, now, PICK_TTL_DAYS).keys

\* C4: a lock-free load_recent that races with an append or a cleanup returns
\* at least every still-active key whose append had returned when it read.
C4_ReadSeesCommitted ==
  last.op = "load_recent" => last.prev \subseteq last.keys

\* C10: remove(key) rewrites the whole log without that key's records and is
\* exclusive with concurrent appends: a record saved by another process while
\* a remove is in progress is not lost by the rewrite.
C10_RemoveKeepsConcurrentSaves ==
  AllIdle => \A tid \in saved \ removed :
               \E i \in DOMAIN _load_all(bk) : _load_all(bk)[i].key = tid


\* ================================================================== URLs
\* A string is the sequence of its characters.
Str_https == <<"h", "t", "t", "p", "s">>
Str_http == <<"h", "t", "t", "p">>
Str_x_com == <<"x", ".", "c", "o", "m">>
Str_twitter_com == <<"t", "w", "i", "t", "t", "e", "r", ".", "c", "o", "m">>
Str_www_dot == <<"w", "w", "w", ".">>
Str_utm_ == <<"u", "t", "m", "_">>
Str_id == <<"i", "d">>
KEEP_PARAMS == {Str_id}
SkipParams == {<<"r", "e", "f">>, <<"r", "e", "f", "_", "s", "r", "c">>, <<"s">>, <<"t">>}

Uppers == {"W", "X", "I", "D"}
Letters == {"a", "b", "c", "d", "e", "f", "h", "i", "m", "o", "p", "r", "s", "t", "u",
            "w", "x"} \cup Uppers
Digits == {"1", "2", "3", "8"}
\* str.lower, on the letters of the model.
LowerChar(c) ==
  CASE c = "W" -> "w" [] c = "X" -> "x" [] c = "I" -> "i" [] c = "D" -> "d"
    [] OTHER -> c
Lower(s) == [i \in DOMAIN s |-> LowerChar(s[i])]

\* str.find for one character: the first index, 0 when there is none.
Find(s, c) ==
  IF \E i \in DOMAIN s : s[i] = c
  THEN CHOOSE i \in DOMAIN s : s[i] = c /\ \A j \in 1..(i - 1) : s[j] # c
  ELSE 0
\* The first index holding one of the characters of cs, Len(s) + 1 when none.
FindAny(s, cs) ==
  IF \E i \in DOMAIN s : s[i] \in cs
  THEN CHOOSE i \in DOMAIN s : s[i] \in cs /\ \A j \in 1..(i - 1) : s[j] \notin cs
  ELSE Len(s) + 1
StartsWith(s, pre) == Len(s) >= Len(pre) /\ SubSeq(s, 1, Len(pre)) = pre
From(s, i) == SubSeq(s, i, Len(s))

RECURSIVE LStrip(_)
LStrip(s) == IF s # <<>> /\ s[1] = " " THEN LStrip(Tail(s)) ELSE s
RECURSIVE RStrip(_, _)
RStrip(s, c) ==
  IF s # <<>> /\ s[Len(s)] = c THEN RStrip(SubSeq(s, 1, Len(s) - 1), c) ELSE s
\* str.strip
Strip(s) == RStrip(LStrip(s), " ")

\* str.replace(old, ""): left to right, without overlap.
RECURSIVE Remove(_, _)
Remove(s, old) ==
  IF s = <<>> THEN <<>>
  ELSE IF StartsWith(s, old) THEN Remove(From(s, Len(old) + 1), old)
  ELSE <<s[1]>> \o Remove(Tail(s), old)

\* str.split(sep) for a one-character separator.
RECURSIVE Split(_, _)
Split(s, sep) ==
  LET i == Find(s, sep)
  IN IF i = 0 THEN <<s>> ELSE <<SubSeq(s, 1, i - 1)>> \o Split(From(s, i + 1), sep)

\* urllib.parse (Python 3.11): scheme_chars, uses_netloc (the members an input
\* of the model can have as its scheme).
SchemeChars == Letters \cup Digits \cup {"+", "-", "."}
UsesNetloc == {<<>>, Str_http, Str_https}

\* urllib.parse.urlsplit, as urlparse calls it, step by step; each step takes
\* what is left of the URL and the components found so far.
\* The scheme: what precedes the first ":", when it is made of scheme
\* characters and starts with a letter.
SplitScheme(url) ==
  LET i == Find(url, ":")
  IN IF i > 1 /\ url[1] \in Letters /\ \A j \in 1..(i - 1) : url[j] \in SchemeChars
     THEN [scheme |-> Lower(SubSeq(url, 1, i - 1)), url |-> From(url, i + 1)]
     ELSE [scheme |-> <<>>, url |-> url]
\* The netloc: after "//", up to the first "/", "?" or "#".
SplitNetloc(r) ==
  IF StartsWith(r.url, <<"/", "/">>)
  THEN LET n == FindAny(From(r.url, 3), {"/", "?", "#"})
       IN [scheme |-> r.scheme, netloc |-> SubSeq(r.url, 3, n + 1), url |-> From(r.url, n + 2)]
  ELSE [scheme |-> r.scheme, netloc |-> <<>>, url |-> r.url]
SplitFragment(r) ==
  LET h == Find(r.url, "#")
  IN [scheme |-> r.scheme, netloc |-> r.netloc,
      fragment |-> IF h = 0 THEN <<>> ELSE From(r.url, h + 1),
      url |-> IF h = 0 THEN r.url ELSE SubSeq(r.url, 1, h - 1)]
\* ValueError("Invalid IPv6 URL") on a netloc with one bracket only.
SplitQuery(r) ==
  LET q == Find(r.url, "?")
  IN [ok |-> (\E k \in DOMAIN r.netloc : r.netloc[k] = "[")
               = (\E k \in DOMAIN r.netloc : r.netloc[k] = "]"),
      scheme |-> r.scheme, netloc |-> r.netloc,
      path |-> IF q = 0 THEN r.url ELSE SubSeq(r.url, 1, q - 1),
      query |-> IF q = 0 THEN <<>> ELSE From(r.url, q + 1),
      fragment |-> r.fragment]
urlparse(url) == SplitQuery(SplitFragment(SplitNetloc(SplitScheme(LStrip(url)))))

\* urllib.parse.quote_plus and unquote, on the characters of the model: the
\* unreserved ones stand for themselves, a space is "+", the others are %XX.
Unreserved == Letters \cup Digits \cup {"_", ".", "-", "~"}
Escaped == {"/", ":", "?", "=", "&", "#", "+", "%", "[", "]"}
Hex(c) ==
  CASE c = "/" -> <<"2", "F">> [] c = ":" -> <<"3", "A">> [] c = "?" -> <<"3", "F">>
    [] c = "=" -> <<"3", "D">> [] c = "&" -> <<"2", "6">> [] c = "#" -> <<"2", "3">>
    [] c = "+" -> <<"2", "B">> [] c = "%" -> <<"2", "5">> [] c = "[" -> <<"5", "B">>
    [] c = "]" -> <<"5", "D">> [] OTHER -> <<"2", "0">>
RECURSIVE quote_plus(_)
quote_plus(s) ==
  IF s = <<>> THEN <<>>
  ELSE (IF s[1] \in Unreserved THEN <<s[1]>>
        ELSE IF s[1] = " " THEN <<"+">>
        ELSE <<"%">> \o Hex(s[1])) \o quote_plus(Tail(s))
RECURSIVE unquote_plus(_)
unquote_plus(s) ==
  IF s = <<>> THEN <<>>
  ELSE IF s[1] = "+" THEN <<" ">> \o unquote_plus(Tail(s))
  ELSE IF s[1] = "%" /\ Len(s) >= 3
          /\ \E c \in Escaped \cup {" "} : Hex(c) = SubSeq(s, 2, 3)
       THEN <<CHOOSE c \in Escaped \cup {" "} : Hex(c) = SubSeq(s, 2, 3)>>
              \o unquote_plus(From(s, 4))
  ELSE <<s[1]>> \o unquote_plus(Tail(s))

\* urllib.parse.parse_qsl(query, keep_blank_values=True)
RECURSIVE ParsePieces(_)
ParsePieces(pieces) ==
  IF pieces = <<>> THEN <<>>
  ELSE LET nv == pieces[1]
           e == Find(nv, "=")
           name == IF e = 0 THEN nv ELSE SubSeq(nv, 1, e - 1)
           value == IF e = 0 THEN <<>> ELSE From(nv, e + 1)
       IN (IF nv = <<>> THEN <<>>
           ELSE <<[k |-> unquote_plus(name), v |-> unquote_plus(value)]>>)
          \o ParsePieces(Tail(pieces))
parse_qsl(query) == ParsePieces(Split(query, "&"))

\* urllib.parse.urlencode of a list of pairs
RECURSIVE urlencode(_)
urlencode(q) ==
  IF q = <<>> THEN <<>>
  ELSE quote_plus(q[1].k) \o <<"=">> \o quote_plus(q[1].v)
       \o (IF Len(q) > 1 THEN <<"&">> ELSE <<>>) \o urlencode(Tail(q))

\* urllib.parse.urlunparse((scheme, netloc, path, "", query, ""))
WithLeadingSlash(path) == IF path # <<>> /\ path[1] # "/" THEN <<"/">> \o path ELSE path
WithScheme(scheme, url) == IF scheme # <<>> THEN scheme \o <<":">> \o url ELSE url
WithQueryPart(url, query) == IF query # <<>> THEN url \o <<"?">> \o query ELSE url
urlunparse(scheme, netloc, path, query) ==
  WithQueryPart(
    WithScheme(scheme,
      IF netloc # <<>>
         \/ (scheme # <<>> /\ scheme \in UsesNetloc /\ ~StartsWith(path, <<"/", "/">>))
      THEN <<"/", "/">> \o netloc \o WithLeadingSlash(path)
      ELSE path),
    query)

\* The loop of canonical_url over the query parameters.
KeepParam(kv) ==
  LET kl == Lower(kv.k)
  IN ~(StartsWith(kl, Str_utm_) \/ kl \in SkipParams) /\ kl \in KEEP_PARAMS

\* canonical_url after urlparse: host, path and query of the parsed URL p.
CanonicalHost(host) == IF host \in {Str_x_com, Str_twitter_com} THEN Str_x_com ELSE host
Canonical(p) ==
  IF ~p.ok THEN [ok |-> FALSE, s |-> <<>>]
  ELSE [ok |-> TRUE,
        s |-> urlunparse(IF p.scheme # <<>> THEN p.scheme ELSE Str_https,
                         CanonicalHost(Remove(Lower(p.netloc), Str_www_dot)),
                         RStrip(p.path, "/"),
                         urlencode(SelectSeq(parse_qsl(p.query), KeepParam)))]
canonical_url(url) ==
  IF url = <<>> THEN [ok |-> TRUE, s |-> <<>>] ELSE Canonical(urlparse(Strip(url)))

\* ------------------------------------------------ calls of canonical_url
\* The raw URLs of the discovered items: optional white space, scheme, "//",
\* host, path, query and fragment.
Leads == {<<>>, <<" ">>}
Schemes == {<<>>, <<"h", "t", "t", "p", "s", ":">>}
Slashes == {<<>>, <<"/", "/">>}
Hosts == {<<>>, Str_x_com, Str_twitter_com, <<"W", "W", "W", ".", "X", ".", "c", "o", "m">>, <<"w", "w", "w", "w", ".", "w", "w", ".", "x", ".", "c", "o", "m">>, <<"x", ".", "c", "o", "m", ":", "8">>, <<"[">>}
Paths == {<<>>, <<"/">>, <<"/", "a">>, <<"/", "a", "/", "/">>}
Queries == {<<>>, <<"?", "i", "d", "=", "1">>, <<"?", "u", "t", "m", "_", "s", "o", "u", "r", "c", "e", "=", "x", "&", "i", "d", "=", "1">>, <<"?", "i", "d", "=", "a", "/", "b">>, <<"?", "s", "=", "2", "&", "I", "D", "=", "1", "&", "q", "=", "1">>}
Frags == {<<>>, <<"#", "f">>}
Urls ==
  {l \o s \o sl \o h \o p \o q \o f :
     l \in Leads, s \in Schemes, sl \in Slashes, h \in Hosts, p \in Paths,
     q \in Queries, f \in Frags}

\* A URL in plain form, and the URLs that differ from it only in host case, a
\* leading "www.", the twitter.com / x.com host, trailing slashes, tracking
\* parameters and the fragment.
IdQueries == {<<>>, <<"i", "d", "=", "1">>, <<"i", "d", "=", "a", "/", "b">>}
Bases == {[host |-> h, path |-> p, idq |-> q] :
            h \in {Str_x_com, <<"x", ".", "c", "o", "m", ":", "8">>, <<"a", ".", "i", "o">>}, p \in {<<>>, <<"/", "a">>}, q \in IdQueries}
WithQuery(q) == IF q = <<>> THEN <<>> ELSE <<"?">> \o q
Plain(b) == <<"h", "t", "t", "p", "s", ":", "/", "/">> \o b.host \o b.path \o WithQuery(b.idq)
HostSpellings(h) ==
  {h, Str_www_dot \o h}
  \cup (IF StartsWith(h, Str_x_com)
        THEN LET port == From(h, Len(Str_x_com) + 1)
             IN {<<"X", ".", "c", "o", "m">> \o port, Str_twitter_com \o port, <<"W", "W", "W", ".", "t", "w", "i", "t", "t", "e", "r", ".", "c", "o", "m">> \o port}
        ELSE {})
Tracked(q) ==
  {q, <<"u", "t", "m", "_", "s", "o", "u", "r", "c", "e", "=", "x">> \o (IF q = <<>> THEN <<>> ELSE <<"&">> \o q),
      (IF q = <<>> THEN <<>> ELSE q \o <<"&">>) \o <<"s", "=", "2">>}
Variants(b) ==
  {<<"h", "t", "t", "p", "s", ":", "/", "/">> \o h \o b.path \o sl \o WithQuery(q) \o f :
     h \in HostSpellings(b.host), sl \in {<<>>, <<"/">>, <<"/", "/">>}, q \in Tracked(b.idq),
     f \in Frags}

InitUrl ==
  /\ now = Epoch
  /\ mem = NoFile
  /\ last = NoCall
  /\ ConcInit
  /\ NormIdle
  /\ run = NoRun
  /\ AuxIdle
  /\ \/ \E u \in Urls :
          canon = [NoCanon EXCEPT !.st = "in", !.u = u, !.v = u]
     \/ \E b \in Bases : \E v \in Variants(b) :
          canon = [NoCanon EXCEPT !.st = "in", !.pair = TRUE, !.u = Plain(b), !.v = v,
                                  !.idq = b.idq]

urlOnly == <<now, mem, last, concVars, bkVars, normVars, run, auxVars>>

\* it["url"] = canonical_url(it.get("url", ""))
Canonicalize ==
  /\ canon.st = "in"
  /\ canon' = [canon EXCEPT !.st = "out", !.c = canonical_url(canon.u),
                            !.cv = canonical_url(canon.v)]
  /\ UNCHANGED urlOnly

\* The canonical URL is canonicalized again (a candidate that comes back).
Recanonicalize ==
  /\ canon.st = "out"
  /\ canon.c.ok
  /\ canon' = [canon EXCEPT !.st = "again", !.cc = canonical_url(canon.c.s)]
  /\ UNCHANGED urlOnly

NextUrl ==
  \/ Canonicalize
  \/ Recanonicalize

SpecUrl == InitUrl /\ [][NextUrl]_vars


\* ------------------------------------------------------------ claims: URLs
CanonDone == canon.st \in {"out", "again"}

\* C17: canonicalization is idempotent: canonicalizing a canonical URL gives
\* the same string, for every input.
C17_CanonicalizationIdempotent == canon.st = "again" => canon.cc = canon.c

\* C18: two URLs that differ only in host case, a leading "www.", the
\* twitter.com / x.com host, trailing slashes, tracking parameters and the
\* fragment get the same canonical URL, and the allow-listed parameters are in
\* it verbatim.
C18_VariantsCanonicalizeAlike ==
  CanonDone /\ canon.pair =>
    /\ canon.c.ok /\ canon.cv = canon.c
    /\ urlparse(canon.cv.s).query = canon.idq

\* C19: canonical_url returns "" exactly for the empty and the unparseable
\* inputs (white space only, a netloc urlparse rejects), a non-empty string
\* for every other input.
Unparseable(u) == Strip(u) = <<>> \/ ~urlparse(Strip(u)).ok
C19_EmptyIffUnparseable ==
  CanonDone /\ ~canon.pair =>
    ((canon.c.ok /\ canon.c.s = <<>>) <=> (canon.u = <<>> \/ Unparseable(canon.u)))


\* ======================================================= normalize.run
\* A text is the sequence of its tokens (white space between them): words,
\* @mentions, links and punctuation marks.
T_gm == <<"gm">>
T_GM == <<"GM", "!", "@bob">>
T_news == <<"big", "news", "http://t.co/x">>
Texts == {T_gm, T_GM, T_news}
Mentions == {"@bob"}
Links == {"http://t.co/x"}
Puncts == {"!"}
LowerWord(w) == IF w = "GM" THEN "gm" ELSE w
\* lower-case, drop @mentions, links and punctuation, collapse the white space
RECURSIVE _normalize_text(_)
_normalize_text(text) ==
  IF text = <<>> THEN <<>>
  ELSE (IF LowerWord(text[1]) \in Mentions \cup Links \cup Puncts THEN <<>>
        ELSE <<LowerWord(text[1])>>) \o _normalize_text(Tail(text))
\* sha1(...).hexdigest()[:16]: one digest per normalized text.
text_hash(text) == _normalize_text(text)
\* len(text)
TokLen(w) ==
  CASE w \in {"gm", "GM"} -> 2 [] w = "!" -> 1 [] w = "@bob" -> 4 [] w = "big" -> 3
    [] w = "news" -> 4 [] OTHER -> 13
RECURSIVE TextLen(_)
TextLen(text) ==
  IF text = <<>> THEN 0
  ELSE TokLen(text[1]) + (IF Len(text) > 1 THEN 1 ELSE 0) + TextLen(Tail(text))

\* The raw URLs of the discovered items, and their canonical forms.
Url_a == <<"h", "t", "t", "p", "s", ":", "/", "/", "x", ".", "c", "o", "m", "/", "a">>
Url_a_tw == <<"h", "t", "t", "p", "s", ":", "/", "/", "t", "w", "i", "t", "t", "e", "r", ".", "c", "o", "m", "/", "a", "/">>
NormUrls == {<<>>, Url_a, Url_a_tw}
\* canonical_url of each of them
CanonicalOf == [u \in NormUrls |-> canonical_url(u)]
\* sha256(u).hexdigest()[:16]: one digest per canonical URL of the model.
Digest(u) == CASE u = <<>> -> "0" [] u = Url_a -> "a" [] OTHER -> "b"

NormIds == {NoId, "1", "2"}
Platforms == {"x", "reddit"}
Cats == <<"ai", "crypto">>
\* The url and the text of the items: no url, one url in two spellings, one
\* text in two spellings and another text.
UrlTexts == {<<<<>>, T_gm>>, <<<<>>, T_news>>, <<<<>>, T_GM>>, <<Url_a, T_gm>>,
             <<Url_a_tw, T_news>>}
\* The items discover.run and reddit_discover.run hand over.
Discovered(platform) ==
  {[id |-> i, url |-> ut[1], text |-> ut[2], platform |-> platform] :
     i \in NormIds, ut \in UrlTexts}

key_for(item) ==
  IF item.id # NoId THEN TweetKey(item.id) ELSE "url:" \o Digest(item.url)

\* One iteration of the loop: what becomes of the candidate.
VerdictNoUrl(c, sk, su, stx) ==
  IF c.url = <<>> /\ c.id = NoId THEN "dropped"
  ELSE IF c.key \in sk THEN "id_dup"
  ELSE IF c.text_hash \in stx THEN "text_dup"
  ELSE "out"
VerdictUrlFirst(c, sk, su, stx) ==
  IF c.url = <<>> /\ c.id = NoId THEN "dropped"
  ELSE IF c.url # <<>> /\ c.url \in su THEN "url_dup"
  ELSE IF c.key \in sk THEN "id_dup"
  ELSE IF c.text_hash \in stx THEN "text_dup"
  ELSE "out"
Verdict(c, sk, su, stx) ==
  IF c.url = <<>> /\ c.id = NoId THEN "dropped"
  ELSE IF c.key \in sk THEN "id_dup"
  ELSE IF c.url # <<>> /\ c.url \in su THEN "url_dup"
  ELSE IF c.text_hash \in stx THEN "text_dup"
  ELSE "out"

\* stats = defaultdict(...); st = stats[category]; st[counter] += 1
StatOf(stats0, cat) == IF cat \in DOMAIN stats0 THEN stats0[cat] ELSE NoStat
Incr(st, counter) ==
  CASE counter = "in" -> [st EXCEPT !.in = @ + 1]
    [] counter = "id_dup" -> [st EXCEPT !.id_dup = @ + 1]
    [] counter = "url_dup" -> [st EXCEPT !.url_dup = @ + 1]
    [] counter = "text_dup" -> [st EXCEPT !.text_dup = @ + 1]
    [] counter = "out" -> [st EXCEPT !.out = @ + 1]
    [] OTHER -> st
SetStat(stats0, cat, st) == [c \in DOMAIN stats0 \cup {cat} |-> IF c = cat THEN st ELSE stats0[c]]

normOnly == <<now, mem, last, concVars, bkVars, canon, auxVars>>

\* it = dict(it) with url, key and text_hash set
Keyed(raw, url, category) ==
  [id |-> raw.id, url |-> url, text |-> raw.text, platform |-> raw.platform,
   key |-> key_for([id |-> raw.id, url |-> url]), text_hash |-> text_hash(raw.text),
   category |-> category]

NormalizeStep(c, v, st0) ==
  /\ nstats' = SetStat(nstats, c.category, Incr(Incr(st0, "in"), v))
  /\ seen_keys' = IF v \in {"dropped", "id_dup"} THEN seen_keys ELSE seen_keys \cup {c.key}
  /\ seen_urls' = IF v \in {"text_dup", "out"} /\ c.url # <<>>
                  THEN seen_urls \cup {c.url} ELSE seen_urls
  /\ seen_text' = IF v = "out" THEN seen_text \cup {c.text_hash} ELSE seen_text
  /\ out' = IF v = "out" THEN Append(out, c) ELSE out
  /\ lastIt' = [id |-> c.id, url |-> c.url, text |-> c.text, platform |-> c.platform,
                key |-> c.key, text_hash |-> c.text_hash, category |-> c.category,
                verdict |-> v, seenKey |-> c.key \in seen_keys,
                seenUrl |-> c.url \in seen_urls,
                seenText |-> c.text_hash \in seen_text, before |-> st0,
                prevIds |-> IF lastIt.verdict = "none" THEN {}
                            ELSE lastIt.prevIds \cup {lastIt.id}]

NormalizeKeyed(c) ==
  NormalizeStep(c, Verdict(c, seen_keys, seen_urls, seen_text), StatOf(nstats, c.category))

NormalizeItem(raw) ==
  /\ run.pc = "normalize"
  /\ blocks.n < MaxDiscovered
  /\ NormalizeKeyed(Keyed(raw, CanonicalOf[raw.url].s, Cats[blocks.cat]))
  /\ blocks' = [blocks EXCEPT !.n = @ + 1]
  /\ UNCHANGED <<normOnly, fresh, run>>

\* for block in discovered_blocks: the next block, of the next category
NextBlock ==
  /\ run.pc = "normalize"
  /\ blocks.cat < Len(Cats)
  /\ blocks' = [blocks EXCEPT !.cat = @ + 1]
  /\ UNCHANGED <<normOnly, out, seen_keys, seen_urls, seen_text, nstats, lastIt, fresh, run>>

\* return out
NormalizeReturn ==
  /\ run.pc = "normalize"
  /\ run' = [run EXCEPT !.pc = "normalized"]
  /\ UNCHANGED <<normOnly, normVars>>

\* extract.run adds the external pages to each item and leaves id, url, key
\* and text as they are (a missing text becomes "").
extract_run(items) == items

\* run.main, stage 2b and 2c: extract, then the TTL filter against the store.
TtlFilter ==
  /\ run.pc = "normalized"
  /\ LET r == filter_new(extract_run(out), mem, now, PICK_TTL_DAYS)
     IN /\ r.ok
        /\ fresh' = r.out
  /\ run' = [run EXCEPT !.pc = "fresh"]
  /\ UNCHANGED <<normOnly, blocks, out, seen_keys, seen_urls, seen_text, nstats, lastIt>>

\* run.main, the cross-category dedup of the X pipeline: by id or url, the
\* longer text wins, a replaced item keeps the first one's place.
RECURSIVE CrossDedup(_, _)
CrossDedup(items, dedup) ==
  IF items = <<>> THEN dedup
  ELSE LET c == Head(items)
           k == IF c.id # NoId THEN <<"id", c.id>> ELSE <<"url", c.url>>
           hit == {i \in DOMAIN dedup : dedup[i].k = k}
           at == CHOOSE i \in hit : TRUE
       IN IF c.id = NoId /\ c.url = <<>> THEN CrossDedup(Tail(items), dedup)
          ELSE IF hit = {} THEN CrossDedup(Tail(items), Append(dedup, [k |-> k, c |-> c]))
          ELSE IF TextLen(c.text) > TextLen(dedup[at].c.text)
               THEN CrossDedup(Tail(items), [dedup EXCEPT ![at] = [k |-> k, c |-> c]])
          ELSE CrossDedup(Tail(items), dedup)
\* The cross-dedup of the Reddit pipeline: by key, the first wins.
RECURSIVE RedditDedup(_, _)
RedditDedup(items, dedup) ==
  IF items = <<>> THEN dedup
  ELSE LET c == Head(items)
       IN IF \E i \in DOMAIN dedup : dedup[i].k = c.key
          THEN RedditDedup(Tail(items), dedup)
          ELSE RedditDedup(Tail(items), Append(dedup, [k |-> c.key, c |-> c]))
Values(dedup) == [i \in DOMAIN dedup |-> dedup[i].c]

Merge ==
  /\ run.pc = "fresh"
  /\ fresh' = IF run.platform = "x" THEN Values(CrossDedup(fresh, <<>>))
              ELSE Values(RedditDedup(fresh, <<>>))
  /\ run' = [run EXCEPT !.pc = "merged"]
  /\ UNCHANGED <<normOnly, blocks, out, seen_keys, seen_urls, seen_text, nstats, lastIt>>

\* A run starts with an empty batch; the store holds the pick of an earlier run.
InitNorm ==
  /\ now = Epoch
  /\ mem = File(Flatten(<<Obj(TweetKey("2"), "pick", "aware", Epoch)>>))
  /\ last = NoCall
  /\ ConcInit
  /\ canon = NoCanon
  /\ blocks = [cat |-> 1, n |-> 0]
  /\ out = <<>>
  /\ seen_keys = {}
  /\ seen_urls = {}
  /\ seen_text = {}
  /\ nstats = <<>>
  /\ lastIt = NoIt
  /\ fresh = <<>>
  /\ AuxIdle
  /\ \E pf \in Platforms : run = [NoRun EXCEPT !.pc = "normalize", !.platform = pf]

NextNorm ==
  \/ \E raw \in Discovered(run.platform) : NormalizeItem(raw)
  \/ NextBlock
  \/ NormalizeReturn
  \/ TtlFilter
  \/ Merge

SpecNorm == InitNorm /\ [][NextNorm]_vars


\* --------------------------------------------------- claims: normalize.run
Dups == {"id_dup", "url_dup", "text_dup"}

\* C12: after normalize.run, for every category, out + key_dup + url_dup +
\* text_dup = in: every input candidate is counted in exactly one outcome.
C12_FunnelInvariant ==
  \A c \in DOMAIN nstats :
    nstats[c].out + nstats[c].id_dup + nstats[c].url_dup + nstats[c].text_dup = nstats[c].in

\* C13: no two retained candidates share the key, a non-empty canonical URL or
\* the text hash, whatever the order and the categories of the batch.
C13_RetainedAreDistinct ==
  \A i, j \in DOMAIN out :
    i # j => /\ out[i].key # out[j].key
             /\ out[i].url # <<>> => out[i].url # out[j].url
             /\ out[i].text_hash # out[j].text_hash
C13_Witness ==
  /\ Len(out) = 2
  /\ out[1].category # out[2].category
  /\ lastIt.verdict = "url_dup"

\* C14: a candidate is rejected only if a candidate retained earlier in the
\* batch has its key, its non-empty canonical URL or its text hash.
C14_RejectedOnlyAgainstRetained ==
  lastIt.verdict \in Dups =>
    \E i \in DOMAIN out :
      \/ out[i].key = lastIt.key
      \/ lastIt.url # <<>> /\ out[i].url = lastIt.url
      \/ out[i].text_hash = lastIt.text_hash

\* C15: a rejected candidate increments exactly one reason counter, the first
\* that matches in the order key, URL, text; a candidate whose id an earlier
\* candidate of the batch had is rejected by key, and at most the first
\* candidate with an id is retained.
C15_RejectionPriority ==
  LET v == lastIt.verdict
      st == nstats[lastIt.category]
      b == lastIt.before
      byUrl == lastIt.url # <<>> /\ lastIt.seenUrl
      Plus(reason) == IF v = reason THEN 1 ELSE 0
  IN /\ v \in Dups =>
          /\ v = "id_dup" <=> lastIt.seenKey
          /\ v = "url_dup" <=> ~lastIt.seenKey /\ byUrl
          /\ v = "text_dup" <=> ~lastIt.seenKey /\ ~byUrl /\ lastIt.seenText
          /\ st.id_dup = b.id_dup + Plus("id_dup")
          /\ st.url_dup = b.url_dup + Plus("url_dup")
          /\ st.text_dup = b.text_dup + Plus("text_dup")
          /\ st.out = b.out
     /\ v = "out" => ~lastIt.seenKey /\ ~byUrl /\ ~lastIt.seenText
     /\ lastIt.id # NoId /\ lastIt.id \in lastIt.prevIds => v = "id_dup"
     /\ \A i, j \in DOMAIN out : out[i].id # NoId /\ out[i].id = out[j].id => i = j
C15_Witness ==
  /\ lastIt.verdict = "id_dup"
  /\ lastIt.id \in lastIt.prevIds
  /\ lastIt.url # <<>> /\ lastIt.seenUrl
  /\ lastIt.seenText
  /\ \E i \in DOMAIN out : out[i].id = lastIt.id

\* C16: when two categories discover the same post with texts of different
\* lengths (and the store does not hold its key), exactly one candidate with
\* that id is left after normalize, TTL filter and merge, the one with the
\* longer text, whichever was discovered first.
C16_LongerTextSurvivesMerge ==
  run.pc = "merged" /\ run.platform = "x" /\ lastIt.id # NoId
    /\ lastIt.key \notin ActiveKeys(mem) =>
    \A i \in DOMAIN out :
      out[i].id = lastIt.id /\ out[i].category # lastIt.category
        /\ TextLen(out[i].text) # TextLen(lastIt.text) =>
        LET same == {j \in DOMAIN fresh : fresh[j].id = lastIt.id}
        IN /\ Cardinality(same) = 1
           /\ \A j \in same : /\ TextLen(fresh[j].text) >= TextLen(out[i].text)
                              /\ TextLen(fresh[j].text) >= TextLen(lastIt.text)

\* C20: the key of a candidate with an id carries a prefix for its platform: a
\* Reddit post never gets the key of the tweet with the same id, from key_for
\* or from append.
C20_KeysCarryPlatform ==
  lastIt.verdict # "none" /\ lastIt.platform = "reddit" /\ lastIt.id # NoId =>
    /\ lastIt.key # key_for([id |-> lastIt.id, url |-> lastIt.url, platform |-> "x"])
    /\ ItemKey([key |-> NoKey, id |-> lastIt.id, platform |-> "reddit"])
         # ItemKey([key |-> NoKey, id |-> lastIt.id, platform |-> "x"])


\* ===================================================== rank.py: the ranker
\* A text is the sequence of its characters.  Scores are counted in points of
\* 1e-5, the precision round(total, 5) keeps; freshness is tabulated to four
\* decimals, so a total of the model agrees with the float of the code to
\* about four significant digits.
MaxRanked == 2
MaxBookmark == 2

REDDIT_MIN_RANK_SCORE == 50
\* _parse_created returns None: the timestamp is missing or not in the format.
NoDate == -1

BLACKLIST ==
  {<<"a", "i", "r", "d", "r", "o", "p">>,
   <<"g", "i", "v", "e", "a", "w", "a", "y">>,
   <<"c", "o", "p", "y", "t", "r", "a", "d", "e">>,
   <<"i", " ", "a", "m", " ", "b", "u", "i", "l", "d", "i", "n", "g", " ", "a", "n", " ", "a",
     "i", " ", "a", "p", "p", "l", "i", "e", "d", " ", "t", "o", " ", "m", "a", "r", "k", "e",
     "t", "i", "n", "g", " ", "t", "e", "c", "h", " ", "s", "t", "a", "r", "t", "u", "p">>,
   <<"o", "u", "t", "s", "i", "d", "e", " ", "c", "o", "n", "s", "u", "l", "t", "a", "n", "t">>,
   <<"d", "m", " ", "m", "e">>,
   <<"l", "i", "n", "k", " ", "i", "n", " ", "b", "i", "o">>,
   <<"f", "r", "e", "e", " ", "c", "o", "u", "r", "s", "e">>,
   <<"f", "r", "e", "e", " ", "e", "b", "o", "o", "k">>,
   <<"g", "e", "t", " ", "r", "i", "c", "h">>,
   <<"p", "a", "s", "s", "i", "v", "e", " ", "i", "n", "c", "o", "m", "e", " ", "g", "u", "a",
     "r", "a", "n", "t", "e", "e", "d">>,
   <<"1", "0", "x", " ", "y", "o", "u", "r", " ", "i", "n", "c", "o", "m", "e">>,
   <<"d", "r", "o", "p", " ", "a">>,
   <<"c", "o", "m", "m", "e", "n", "t", " ", "b", "e", "l", "o", "w">>,
   <<"r", "e", "t", "w", "e", "e", "t", " ", "t", "o", " ", "w", "i", "n">>,
   <<"c", "r", "y", "p", "t", "o", " ", "t", "r", "a", "d", "i", "n", "g", " ", "b", "o", "t">>,
   <<"f", "o", "r", "e", "x">>,
   <<"b", "i", "n", "a", "r", "y", " ", "o", "p", "t", "i", "o", "n">>,
   <<"d", "r", "o", "p", "s", "h", "i", "p", "p", "i", "n", "g">>,
   <<"p", "r", "i", "n", "t", " ", "o", "n", " ", "d", "e", "m", "a", "n", "d">>,
   <<"f", "o", "l", "l", "o", "w", " ", "m", "e", " ", "f", "o", "r">>,
   <<"f", "o", "l", "l", "o", "w", " ", "f", "o", "r", " ", "f", "o", "l", "l", "o", "w">>,
   <<"l", "i", "m", "i", "t", "e", "d", " ", "s", "p", "o", "t", "s">>,
   <<"s", "p", "o", "t", "s", " ", "r", "e", "m", "a", "i", "n", "i", "n", "g">>,
   <<"e", "n", "r", "o", "l", "l", " ", "n", "o", "w">>}
R_blank == <<" ", " ">>
R_spam_short == <<"f", "r", "e", "e", " ", "e", "b", "o", "o", "k", " ", "d", "m", " ", "m",
  "e", " ", "n", "o", "w">>
R_spam == <<"g", "e", "t", " ", "m", "y", " ", "f", "r", "e", "e", " ", "e", "b", "o", "o", "k",
  " ", "o", "n", " ", "a", "i", " ", "a", "g", "e", "n", "t", "s", " ", "t", "o", "d", "a", "y",
  " ", "o", "k">>
R_spam_caps == <<"p", "i", "n", "g", " ", "m", "e", " ", "o", "r", " ", "D", "m", " ", "m", "e",
  " ", "f", "o", "r", " ", "t", "h", "e", " ", "a", "i", " ", "g", "u", "i", "d", "e">>
R_short == <<"n", "i", "c", "e", " ", "a", "i", " ", "d", "e", "m", "o">>
R_ok == <<"i", " ", "b", "u", "i", "l", "t", " ", "a", "n", " ", "a", "g", "e", "n", "t", " ",
  "t", "h", "a", "t", " ", "s", "h", "i", "p", "s", " ", "c", "o", "d", "e", " ", "e", "v", "e",
  "r", "y", " ", "d", "a", "y">>
R_mentions == <<"@", "a", " ", "@", "b", " ", "@", "c", " ", "@", "d", " ", "@", "e", " ", "l",
  "o", "o", "k", " ", "a", "t", " ", "t", "h", "i", "s", " ", "a", "i", " ", "d", "e", "m",
  "o">>

RankTexts == {<<>>, R_blank, R_spam_short, R_spam, R_spam_caps, R_short, R_ok, R_mentions}

\* b in t_low
Contains(s, sub) ==
  \E i \in 1..(Len(s) - Len(sub) + 1) : SubSeq(s, i, i + Len(sub) - 1) = sub
\* len(text.split()): the maximal runs of characters that are not white space
WordCount(s) == Cardinality({i \in DOMAIN s : s[i] # " " /\ (i = 1 \/ s[i - 1] = " ")})
\* t_low.count('@')
CountChar(s, c) == Cardinality({i \in DOMAIN s : s[i] = c})

\* rank.py:101-113: the checks on the text, in the order of the code; "ok"
\* when none rejects.
TextReason(text) ==
  IF Strip(text) = <<>> THEN "empty"
  ELSE IF WordCount(Strip(text)) < 8 THEN "short"
  ELSE IF \E b \in BLACKLIST : Contains(Lower(Strip(text)), b) THEN "blacklisted"
  ELSE IF CountChar(Lower(Strip(text)), "@") >= 5 THEN "too_many_mentions"
  ELSE "ok"
TextReasonOf == [t \in RankTexts |-> TextReason(t)]

\* rank.py:115-132: the engagement gate, by platform and source.
LowEng(it) ==
  IF it.platform = "reddit" THEN it.metrics.like < REDDIT_MIN_RANK_SCORE
  ELSE IF it.source = "author"
       THEN it.metrics.bookmark < 1 /\ it.metrics.retweet < 1 /\ it.metrics.like < 3
  ELSE it.metrics.bookmark < 2 /\ it.metrics.retweet < 1

\* The reason _classify_reject returns; valid iff it is "ok".
_classify_reject(it) ==
  IF TextReasonOf[it.text] # "ok" THEN TextReasonOf[it.text]
  ELSE IF LowEng(it) THEN "low_eng"
  ELSE "ok"

\* _hours_since, in tenths of an hour: 48.0 for an unparseable timestamp, at
\* least 0.1.  createdAt is modelled by the age of the post in hours.
_hours_since(created) ==
  IF created = NoDate THEN 480 ELSE IF created * 10 < 1 THEN 1 ELSE created * 10

_raw_engagement(m) == 10 * m.bookmark + 3 * m.retweet + 2 * m.reply + m.like

\* math.log10(followers + 10), for the follower counts of the model.
Log10Plus10(followers) == CASE followers = 0 -> 1 [] followers = 90 -> 2 [] OTHER -> 3

\* math.exp(-0.0125 * hours) in units of 1e-4, for the ages of the model:
\* 0.1 h, 12 h, 48 h; from about 1500 h on the product with the blend is
\* below 5e-6.
Freshness(h10) ==
  CASE h10 = 1 -> 9988 [] h10 = 120 -> 8607 [] h10 = 480 -> 5488 [] OTHER -> 0

\* velocity * 2.5 + relative * 2.0 + virality * 1.5, in points.
Blend(eng, h10, logf, rt, lk) ==
  (eng * 2500000) \div (h10 + 20) + (eng * 200000) \div logf
    + (rt * 150000) \div (lk + 1)
\* x * f / 10000 for f in units of 1e-4, without leaving 32 bits.
Scale4(x, f) == (x \div 10000) * f + ((x % 10000) * f) \div 10000
SourceBoost(it) == IF it.source = "author" THEN 115 ELSE 100
\* round(total, 5): the nearest point.
Total(blend, decay, boost) == (Scale4(blend, decay) * boost + 50) \div 100

\* score(it): the total, in points.
score(it) ==
  Total(Blend(_raw_engagement(it.metrics), _hours_since(it.created),
              Log10Plus10(it.followers), it.metrics.retweet, it.metrics.like),
        Freshness(_hours_since(it.created)), SourceBoost(it))

\* it = dict(it); it['score'] = ...; it['score_components'] = ...
Scored(it, total) ==
  [f \in DOMAIN it \cup {"score", "score_components"} |->
     IF f = "score" THEN total
     ELSE IF f = "score_components"
          THEN [raw_eng |-> _raw_engagement(it.metrics), hours |-> _hours_since(it.created)]
     ELSE it[f]]

\* valid, reason = _classify_reject(it); if not valid: ... continue
\* (mutant: no candidate is rejected)
GatedMut(it) == TRUE
Gated(it) == _classify_reject(it) = "ok"

\* rank.py:146-164: by_cat, the gated-in candidates of each category with
\* their scores, the categories in the order of their first such candidate.
RECURSIVE ByCat(_, _)
ByCat(items, by_cat) ==
  IF items = <<>> THEN by_cat
  ELSE IF ~Gated(Head(items)) THEN ByCat(Tail(items), by_cat)
  ELSE LET it == Scored(Head(items), score(Head(items)))
           at == {i \in DOMAIN by_cat : by_cat[i].cat = it.category}
       IN IF at = {}
          THEN ByCat(Tail(items), Append(by_cat, [cat |-> it.category, arr |-> <<it>>]))
          ELSE ByCat(Tail(items),
                     [i \in DOMAIN by_cat |->
                        IF i \in at THEN [by_cat[i] EXCEPT !.arr = Append(@, it)]
                        ELSE by_cat[i]])

\* (mutant: ascending order)
RECURSIVE SortAsc(_, _)
SortAsc(arr, sorted) ==
  IF arr = <<>> THEN sorted
  ELSE LET n == Cardinality({i \in DOMAIN sorted : sorted[i].score <= Head(arr).score})
       IN SortAsc(Tail(arr),
                  SubSeq(sorted, 1, n) \o <<Head(arr)>> \o SubSeq(sorted, n + 1, Len(sorted)))
\* arr.sort(key=score, reverse=True): stable, equal scores keep their order.
RECURSIVE SortDesc(_, _)
SortDesc(arr, sorted) ==
  IF arr = <<>> THEN sorted
  ELSE LET n == Cardinality({i \in DOMAIN sorted : sorted[i].score >= Head(arr).score})
       IN SortDesc(Tail(arr),
                   SubSeq(sorted, 1, n) \o <<Head(arr)>> \o SubSeq(sorted, n + 1, Len(sorted)))

\* arr[:n]
Take(arr, n) == SubSeq(arr, 1, IF n < Len(arr) THEN n ELSE Len(arr))

\* rank.py:195-204: sort, cap and concatenate.
RECURSIVE TopOf(_, _)
TopOf(by_cat, max) ==
  IF by_cat = <<>> THEN <<>>
  ELSE Take(SortDesc(Head(by_cat).arr, <<>>), max) \o TopOf(Tail(by_cat), max)

rank_run(items, max) == TopOf(ByCat(items, <<>>), max)

\* ----------------------------------------------------- inputs of the ranker
RankCats == {"ai", "crypto"}
RankAges == {NoDate, 0, 2000}
Metrics(b, rt, lk) == [bookmark |-> b, retweet |-> rt, reply |-> 0, like |-> lk]
RankItem(text, m, created, cat, source, platform) ==
  [id |-> "1", category |-> cat, text |-> text, metrics |-> m, followers |-> 0,
   created |-> created, source |-> source, platform |-> platform]
\* Every text of the model with an engagement that passes the gate; the good
\* text at both sides of each engagement gate; the good text with every
\* bookmark count, age and category.
RankItems ==
  {RankItem(t, Metrics(2, 1, 0), 0, "ai", "keyword", "x") : t \in RankTexts} \cup
  {RankItem(R_ok, Metrics(1, 0, 0), 0, "ai", "keyword", "x"),
   RankItem(R_ok, Metrics(0, 0, 2), 0, "ai", "author", "x"),
   RankItem(R_ok, Metrics(0, 0, 3), 0, "ai", "author", "x"),
   RankItem(R_ok, Metrics(0, 0, 49), 0, "ai", "keyword", "reddit"),
   RankItem(R_ok, Metrics(0, 0, 50), 0, "ai", "keyword", "reddit")} \cup
  {RankItem(R_ok, Metrics(b, 1, 0), a, c, "keyword", "x") :
     b \in 0..MaxBookmark, a \in RankAges, c \in RankCats}
\* max_candidates_per_category: the default, and a cap a batch of the model
\* reaches.
RankCaps == {1, 25}

InitRank ==
  /\ now = Epoch
  /\ mem = NoFile
  /\ last = NoCall
  /\ ConcInit
  /\ canon = NoCanon
  /\ NormIdle
  /\ run = NoRun
  /\ dyn = NoDyn
  /\ cb = NoCb
  /\ \E items \in SeqsUpTo(RankItems, MaxRanked), max \in RankCaps :
       rk = [NoRank EXCEPT !.st = "in", !.items = items, !.max = max]

rankOnly == <<now, mem, last, concVars, bkVars, canon, normVars, run, dyn, cb>>

\* rank.run(items, max_candidates_per_category)
RankRun ==
  /\ rk.st = "in"
  /\ rk' = [rk EXCEPT !.st = "ranked", !.out = rank_run(rk.items, rk.max)]
  /\ UNCHANGED rankOnly

\* _classify_reject(it) and score(it) of every item of the batch, as a caller
\* of the two functions gets them.
Classify ==
  /\ rk.st = "in"
  /\ rk' = [rk EXCEPT !.st = "classified",
                      !.out = [i \in DOMAIN rk.items |->
                                 [reason |-> _classify_reject(rk.items[i]),
                                  score |-> score(rk.items[i])]]]
  /\ UNCHANGED rankOnly

NextRank ==
  \/ RankRun
  \/ Classify

SpecRank == InitRank /\ [][NextRank]_vars

\* ------------------------------------------------------ claims: the ranker
\* C21: every candidate whose text contains a blacklisted substring, in any
\* case, is rejected with the reason "blacklisted", whatever its engagement
\* and its length.
C21_BlacklistedTextRejected ==
  rk.st = "classified" =>
    \A i \in DOMAIN rk.items :
      (\E b \in BLACKLIST : Contains(Lower(rk.items[i].text), b))
        => rk.out[i].reason = "blacklisted"

Passes(it) == _classify_reject(it) = "ok"
Unscored(o) == [f \in DOMAIN o \ {"score", "score_components"} |-> o[f]]

\* C22: every candidate in the output of rank.run is a candidate of the input
\* that passed the gate and carries score(it) and its components; a candidate
\* the gate rejected is not in the output.
C22_ScoreOnlyForGated ==
  rk.st = "ranked" =>
    /\ \A j \in DOMAIN rk.out :
         /\ \E i \in DOMAIN rk.items : rk.items[i] = Unscored(rk.out[j])
         /\ Passes(Unscored(rk.out[j]))
         /\ rk.out[j].score = score(Unscored(rk.out[j]))
         /\ DOMAIN rk.out[j].score_components = {"raw_eng", "hours"}
    /\ \A i \in DOMAIN rk.items :
         ~Passes(rk.items[i]) => \A j \in DOMAIN rk.out : Unscored(rk.out[j]) # rk.items[i]
C22_Witness ==
  /\ rk.st = "ranked"
  /\ Len(rk.items) = 2
  /\ Len(rk.out) = 1
  /\ \E i \in DOMAIN rk.items : _classify_reject(rk.items[i]) = "low_eng"

\* The gated-in candidates of a category, in input order.
PassedOf(cat) == SelectSeq(rk.items, LAMBDA it : Passes(it) /\ it.category = cat)
OutOf(cat) == SelectSeq(rk.out, LAMBDA o : o.category = cat)
\* kept is the stable descending top of passed: position i of kept is position
\* f[i] of passed, and whatever was left out ranks behind everything kept.
StableTop(kept, passed) ==
  \E f \in [DOMAIN kept -> DOMAIN passed] :
    /\ \A i \in DOMAIN kept : Unscored(kept[i]) = passed[f[i]]
    /\ \A i, j \in DOMAIN kept :
         i < j => \/ score(passed[f[i]]) > score(passed[f[j]])
                  \/ score(passed[f[i]]) = score(passed[f[j]]) /\ f[i] < f[j]
    /\ \A k \in DOMAIN passed : \A i \in DOMAIN kept :
         (\A j \in DOMAIN kept : f[j] # k) =>
           \/ score(passed[k]) < score(passed[f[i]])
           \/ score(passed[k]) = score(passed[f[i]]) /\ f[i] < k

\* C23: per category the output holds at most max_candidates_per_category
\* candidates, in non-increasing score order; a gated-in candidate left out
\* has a score no higher than any kept; equal scores keep their input order.
C23_TopPerCategory ==
  rk.st = "ranked" =>
    \A cat \in RankCats :
      /\ Len(OutOf(cat)) = (IF Len(PassedOf(cat)) < rk.max THEN Len(PassedOf(cat)) ELSE rk.max)
      /\ \A i, j \in DOMAIN OutOf(cat) : i < j => OutOf(cat)[i].score >= OutOf(cat)[j].score
      /\ StableTop(OutOf(cat), PassedOf(cat))
C23_Witness ==
  /\ rk.st = "ranked"
  /\ rk.max = 1
  /\ Len(PassedOf("ai")) = 2
  /\ score(rk.items[1]) = score(rk.items[2])
  /\ rk.items[1] # rk.items[2]
  /\ Len(rk.out) = 1

\* C24: of two candidates that differ in the bookmark count only, the one with
\* more bookmarks gets the strictly higher total from score(), at every age of
\* the post.
C24_MoreBookmarksScoreHigher ==
  rk.st = "classified" =>
    \A i, j \in DOMAIN rk.items :
      /\ rk.items[i].metrics.bookmark < rk.items[j].metrics.bookmark
      /\ [rk.items[i] EXCEPT !.metrics.bookmark = 0]
           = [rk.items[j] EXCEPT !.metrics.bookmark = 0]
      => rk.out[i].score < rk.out[j].score


\* =========================================== run.main, stage 3 to stage 6
\* The run from the ranker on: the fresh candidates of the X pipeline, the
\* normalized posts of the Reddit pipeline, the summarizer's picks, the memory
\* writes and the Telegram send.
PipeItem(id, url, key, m, platform) ==
  [id |-> id, url |-> url, key |-> key, category |-> "ai", text |-> R_ok, metrics |-> m,
   followers |-> 0, created |-> 0, source |-> "keyword", platform |-> platform]
\* A tweet, a candidate with a URL and no id, and a tweet the gate rejects.
XCands ==
  {PipeItem("1", "u1", TweetKey("1"), Metrics(2, 1, 0), "x"),
   PipeItem(NoId, "ua", "url:a", Metrics(2, 1, 0), "x"),
   PipeItem("3", "u3", TweetKey("3"), Metrics(1, 0, 0), "x")}
\* Reddit posts with the keys normalize.key_for gives them; the last one is
\* below REDDIT_MIN_RANK_SCORE.
RedditCands ==
  {PipeItem("1", "r1", TweetKey("1"), Metrics(0, 0, 50), "reddit"),
   PipeItem("2", "r2", TweetKey("2"), Metrics(0, 0, 50), "reddit"),
   PipeItem("3", "r3", TweetKey("3"), Metrics(0, 0, 49), "reddit")}
Distinct(seq) == \A i, j \in DOMAIN seq : i # j => seq[i] # seq[j]

runOnly == <<now, last, concVars, bkVars, canon, normVars, auxVars>>

\* memory_store.append as run.main calls it: MEM.open('a') raises OSError when
\* the store cannot be written, else the records are appended.
AppendOk == run.writable
Appended(items, tier) ==
  LET recs == AppendRecs(items, tier, now)
  IN IF recs = <<>> THEN OpenAppend(mem) ELSE WriteAppend(mem, Flatten(recs))

\* Stage 3: ranked = rank_run(fresh, max_candidates_per_category=25)
Rank ==
  /\ run.pc = "rank"
  /\ run' = [run EXCEPT !.pc = "summarize", !.ranked = rank_run(run.fresh, 25)]
  /\ UNCHANGED <<runOnly, mem>>

\* if ranked: (run.py:190), if r_ranked: (run.py:312)
\* (mutant: the summarizer is called whatever the ranker returned)
CallsSummarizerMut(ranked) == TRUE
CallsSummarizer(ranked) == ranked # <<>>

\* A pick as summarize.run builds it, from the LLM's answer or in the fallback:
\* id, url, score and category of the candidate, and no key.
Pick(c) == [id |-> c.id, url |-> c.url, category |-> c.category, score |-> c.score,
            key |-> NoKey]
\* The picks for a selection of the candidates, in the candidates' order.
RECURSIVE PicksOf(_, _, _)
PicksOf(ranked, sel, i) ==
  IF i > Len(ranked) THEN <<>>
  ELSE (IF i \in sel THEN <<Pick(ranked[i])>> ELSE <<>>) \o PicksOf(ranked, sel, i + 1)

\* Stage 4: picks = [] unless the ranker returned candidates; then
\* summarize_run(ranked) returns the picks the LLM chose among them (fewer
\* than asked for, or none, when it finds nothing worth picking).
Summarize ==
  /\ run.pc = "summarize"
  /\ IF CallsSummarizer(run.ranked)
     THEN \E sel \in SUBSET DOMAIN run.ranked :
            run' = [run EXCEPT !.pc = "keys", !.picks = PicksOf(run.ranked, sel, 1),
                               !.llm = Append(@, [pipeline |-> "x", items |-> run.ranked])]
     ELSE run' = [run EXCEPT !.pc = "keys", !.picks = <<>>]
  /\ UNCHANGED <<runOnly, mem>>

\* pick_ids = {str(p.get('id')) for p in picks if p.get('id')}
PickIds(picks) == {picks[i].id : i \in DOMAIN picks} \ {NoId}
\* ranked_idx.get(str(p.get('id')), {}).get('key'): ranked_idx holds the items
\* of fresh that have an id.
BaseKey(p, items) ==
  IF p.id # NoId /\ \E i \in DOMAIN items : items[i].id = p.id
  THEN items[CHOOSE i \in DOMAIN items :
               items[i].id = p.id /\ \A j \in DOMAIN items : items[j].id = p.id => j <= i].key
  ELSE NoKey
\* p['key'] = base.get('key') or (f"tweet:{p.get('id')}" if p.get('id') else '')
WithKeys(picks, items) ==
  [i \in DOMAIN picks |->
     [picks[i] EXCEPT !.key = ItemKey([key |-> BaseKey(picks[i], items), id |-> picks[i].id])]]
\* The ranked candidates whose id is no pick's id, each with its key.
RankedNotPicked(ranked, picks) ==
  LET rest == SelectSeq(ranked, LAMBDA r : r.id \notin PickIds(picks))
  IN [i \in DOMAIN rest |-> [rest[i] EXCEPT !.key = ItemKey(rest[i])]]

\* Stage 5 up to the memory writes: run.py:206-221.
AssignKeys ==
  /\ run.pc = "keys"
  /\ run' = [run EXCEPT !.pc = "stage5", !.picks = WithKeys(run.picks, run.fresh),
                        !.ranked_not_picked = RankedNotPicked(run.ranked, run.picks)]
  /\ UNCHANGED <<runOnly, mem>>

\* The store becomes unwritable (permissions, a full or read-only disk).
StoreBreaks ==
  /\ run.pc \notin {"idle", "raised", "done"}
  /\ run.writable
  /\ run' = [run EXCEPT !.writable = FALSE]
  /\ UNCHANGED <<runOnly, mem>>

\* if dry_run: the memory writes of stage 5 are skipped
SkipMemory ==
  /\ run.pc = "stage5"
  /\ run.dry_run
  /\ run' = [run EXCEPT !.pc = "stage5b"]
  /\ UNCHANGED <<runOnly, mem>>

\* mem_append(picks, tier='pick'): outside any try, a failure ends main.
AppendPicks ==
  /\ run.pc = "stage5"
  /\ ~run.dry_run
  /\ IF AppendOk
     THEN /\ mem' = Appended(run.picks, "pick")
          /\ run' = [run EXCEPT !.pc = "append_ranked"]
     ELSE /\ mem' = mem
          /\ run' = [run EXCEPT !.pc = "raised", !.failed = @ \cup {"picks"}]
  /\ UNCHANGED runOnly

\* mem_append(ranked_not_picked, tier='ranked')
AppendRanked ==
  /\ run.pc = "append_ranked"
  /\ IF AppendOk
     THEN /\ mem' = Appended(run.ranked_not_picked, "ranked")
          /\ run' = [run EXCEPT !.pc = "cleanup"]
     ELSE /\ mem' = mem
          /\ run' = [run EXCEPT !.pc = "raised", !.failed = @ \cup {"ranked"}]
  /\ UNCHANGED runOnly

\* mem_cleanup(memory_days): nothing to do without a file; MEM.open('w')
\* raises when the store cannot be written.
RunCleanup ==
  /\ run.pc = "cleanup"
  /\ LET r == CleanupLoop(_load_all(mem), now, PICK_TTL_DAYS)
     IN IF ~mem.exists \/ (AppendOk /\ r.ok)
        THEN /\ mem' = IF ~mem.exists THEN mem
                       ELSE WriteAt(OpenTruncate(mem), 0, Flatten(r.kept))
             /\ run' = [run EXCEPT !.pc = "stage5b"]
        ELSE /\ mem' = mem
             /\ run' = [run EXCEPT !.pc = "raised", !.failed = @ \cup {"cleanup"}]
  /\ UNCHANGED runOnly

\* Stage 5b up to its memory writes (run.py:238-327): nothing when Reddit is
\* disabled; else normalized posts, TTL filter, dedup by key, rank, and the
\* summarizer when the ranker returned candidates.
RedditPipeline ==
  /\ run.pc = "stage5b"
  /\ IF ~run.reddit_enabled
     THEN run' = [run EXCEPT !.pc = "reddit", !.r_ranked = <<>>, !.reddit_picks = <<>>]
     ELSE LET r == filter_new(run.r_in, mem, now, PICK_TTL_DAYS)
              r_ranked == rank_run(Values(RedditDedup(r.out, <<>>)), 25)
          IN /\ r.ok
             /\ IF CallsSummarizer(r_ranked)
                THEN \E sel \in SUBSET DOMAIN r_ranked :
                       run' = [run EXCEPT !.pc = "reddit", !.r_ranked = r_ranked,
                                          !.reddit_picks = PicksOf(r_ranked, sel, 1),
                                          !.llm = Append(@, [pipeline |-> "reddit",
                                                             items |-> r_ranked])]
                ELSE run' = [run EXCEPT !.pc = "reddit", !.r_ranked = <<>>,
                                        !.reddit_picks = <<>>]
  /\ UNCHANGED <<runOnly, mem>>

\* Stage 5b without its memory writes: Reddit disabled, nothing ranked, or a
\* dry run.
RedditNoWrite ==
  /\ run.pc = "reddit"
  /\ ~run.reddit_enabled \/ run.r_ranked = <<>> \/ run.dry_run
  /\ run' = [run EXCEPT !.pc = "publish",
                        !.reddit_picks = IF run.reddit_enabled /\ run.r_ranked # <<>>
                                         THEN @ ELSE <<>>]
  /\ UNCHANGED <<runOnly, mem>>

\* mem_append(reddit_picks, tier='pick'), inside the try of stage 5b: the
\* except clause prints the error and main goes on to stage 6.
RedditAppendPicks ==
  /\ run.pc = "reddit"
  /\ run.reddit_enabled /\ run.r_ranked # <<>> /\ ~run.dry_run
  /\ IF AppendOk
     THEN /\ mem' = Appended(run.reddit_picks, "pick")
          /\ run' = [run EXCEPT !.pc = "r_append_ranked"]
     ELSE /\ mem' = mem
          /\ run' = [run EXCEPT !.pc = "publish", !.caught = TRUE,
                                !.failed = @ \cup {"reddit_picks"}]
  /\ UNCHANGED runOnly

\* mem_append([r for r in r_ranked if not picked], tier='ranked'), same try
NotPicked(r) == \A i \in DOMAIN run.reddit_picks : run.reddit_picks[i].id # r.id
RedditAppendRanked ==
  /\ run.pc = "r_append_ranked"
  /\ IF AppendOk
     THEN /\ mem' = Appended(SelectSeq(run.r_ranked, NotPicked), "ranked")
          /\ run' = [run EXCEPT !.pc = "publish"]
     ELSE /\ mem' = mem
          /\ run' = [run EXCEPT !.pc = "publish", !.caught = TRUE,
                                !.failed = @ \cup {"reddit_ranked"}]
  /\ UNCHANGED runOnly

\* run.py:389-405: send_messages is called unless this is a dry run, when
\* SEND_TELEGRAM=1 and TELEGRAM_TARGET are set and there are messages.
\* (mutant: the dry run sends)
SendsMut(r, messages) == r.send /\ messages # <<>>
Sends(r, messages) == ~r.dry_run /\ r.send /\ messages # <<>>

\* Stage 6: the messages are built from picks and reddit_picks (one for each
\* category that has picks), written to the output files and sent; main
\* returns.
Publish ==
  /\ run.pc = "publish"
  /\ run' = [run EXCEPT !.pc = "done", !.published = run.picks \o run.reddit_picks,
                        !.sent = IF Sends(run, run.picks \o run.reddit_picks)
                                 THEN @ + 1 ELSE @]
  /\ UNCHANGED <<runOnly, mem>>

InitRun ==
  /\ now = Epoch
  /\ mem \in {NoFile, File(Flatten(<<Obj(TweetKey("2"), "ranked", "aware", Epoch - PICK_TTL_DAYS)>>))}
  /\ last = NoCall
  /\ ConcInit
  /\ canon = NoCanon
  /\ NormIdle
  /\ AuxIdle
  /\ \E dry \in BOOLEAN, reddit \in BOOLEAN, w \in BOOLEAN, send \in BOOLEAN :
       \E f \in SeqsUpTo(XCands, MaxBatch), r \in SeqsUpTo(RedditCands, MaxBatch) :
         /\ Distinct(f) /\ Distinct(r)
         /\ run = [NoRun EXCEPT !.pc = "rank", !.dry_run = dry, !.reddit_enabled = reddit,
                                !.writable = w, !.send = send, !.fresh = f, !.r_in = r,
                                !.mem0 = mem]

NextRun ==
  \/ Rank
  \/ Summarize
  \/ AssignKeys
  \/ RedditPipeline
  \/ StoreBreaks
  \/ SkipMemory
  \/ AppendPicks
  \/ AppendRanked
  \/ RunCleanup
  \/ RedditNoWrite
  \/ RedditAppendPicks
  \/ RedditAppendRanked
  \/ Publish

SpecRun == InitRun /\ [][NextRun]_vars

\* ------------------------------------------------------ claims: the run
\* C11: a failed memory-store write ends the run with the failure: no run goes
\* on to publish after a write of the X pipeline or of the Reddit pipeline
\* failed.
C11_WriteFailurePropagates == run.pc \in {"publish", "done"} => run.failed = {}

\* C25: the summarizer is called with a non-empty ranked list only; when the
\* ranker returns no candidate, of the X pipeline or of the Reddit pipeline,
\* the summarizer is not called for that pipeline and it has no picks.
C25_NoFallback ==
  /\ \A i \in DOMAIN run.llm : run.llm[i].items # <<>>
  /\ run.pc \notin {"idle", "rank", "summarize"} /\ run.ranked = <<>> =>
       /\ run.picks = <<>>
       /\ \A i \in DOMAIN run.llm : run.llm[i].pipeline # "x"
  /\ run.pc \in {"reddit", "r_append_ranked", "publish", "done"} /\ run.r_ranked = <<>> =>
       /\ run.reddit_picks = <<>>
       /\ \A i \in DOMAIN run.llm : run.llm[i].pipeline # "reddit"
C25_Witness ==
  /\ run.pc = "done"
  /\ run.fresh # <<>> /\ run.ranked = <<>>
  /\ run.reddit_enabled /\ run.r_in # <<>> /\ run.r_ranked = <<>>
  /\ run.llm = <<>>
  /\ run.published = <<>>

Picked(c, picks) == \E i \in DOMAIN picks : picks[i].id = c.id /\ picks[i].url = c.url
\* The tiers under which this run recorded a key.
TiersOf(key) == {r.tier : r \in {x \in Records(mem) : x.key = key /\ x.seen_at = now}}

\* C26: after a run that is not a dry run (and whose writes did not fail),
\* every candidate the ranker returned is recorded under its key, the key
\* filter_new compares, in exactly one tier: "pick" if the summarizer picked
\* it, "ranked" otherwise.
C26_RankedRecordedInOneTier ==
  run.pc = "done" /\ ~run.dry_run /\ run.failed = {} =>
    /\ \A i \in DOMAIN run.ranked :
         TiersOf(run.ranked[i].key)
           = IF Picked(run.ranked[i], run.picks) THEN {"pick"} ELSE {"ranked"}
    /\ \A i \in DOMAIN run.r_ranked :
         TiersOf(run.r_ranked[i].key)
           = IF Picked(run.r_ranked[i], run.reddit_picks) THEN {"pick"} ELSE {"ranked"}

\* C27: in a dry run the memory store is as it was when the run started, at
\* every stage of the X and the Reddit pipeline, and send_messages is never
\* called.
C27_DryRunWritesNothing == run.dry_run => mem = run.mem0 /\ run.sent = 0
C27_Witness ==
  /\ run.pc = "done"
  /\ run.dry_run /\ run.send /\ run.writable
  /\ run.picks # <<>> /\ run.reddit_picks # <<>>
  /\ run.ranked_not_picked # <<>>

\* ============================================ bot_handler.py: the callback
MaxCallbacks == 2

\* The item keys of the callbacks: "interesting:{tweet_id}" and
\* "interesting:reddit:{post_id}" after cb_data.split(':', 1)[1]; "" when
\* nothing follows the colon.
CbItems == BkIds \cup {"2", ""}

\* bookmarks_store.exists
bk_exists(b, tid) == \E i \in DOMAIN _load_all(b) : _load_all(b)[i].key = tid
\* bookmarks_store.remove, start to return: the file is rewritten without the
\* records of tid, or left alone when there is none.
bk_remove(b, tid) ==
  IF Len(BkFilter(_load_all(b), tid)) = Len(_load_all(b)) THEN b
  ELSE File(Flatten(BkFilter(_load_all(b), tid)))
\* def save(tweet_id, url='', title='', category='', deep_read_sent=False)
SaveParams == {"tweet_id", "url", "title", "category", "deep_read_sent"}
\* bk_save(tweet_id=..., url=..., category=..., source=platform)
SaveCall == {"tweet_id", "url", "category", "source"}
\* bookmarks_store.save, start to return; a keyword that is no parameter of
\* save raises TypeError before its body runs.
bk_save(b, tid, kwargs) ==
  IF kwargs \subseteq SaveParams
  THEN [ok |-> TRUE, bk |-> WriteAppend(b, LineUnits(BkRec(tid)))]
  ELSE [ok |-> FALSE, bk |-> b]

BkIdsOf(b) == {_load_all(b)[i].key : i \in DOMAIN _load_all(b)}

\* handle_interesting(callback_query), start to return or raise; main's loop
\* catches the exception, prints it and takes the next update.
HandleInteresting(item) ==
  /\ cb.n < MaxCallbacks
  /\ bk' = IF item = "" THEN bk
           ELSE IF bk_exists(bk, item) THEN bk_remove(bk, item)
           ELSE bk_save(bk, item, SaveCall).bk
  /\ cb' = [st |-> "handled", item |-> item, was |-> bk_exists(bk, item),
            raised |-> item # "" /\ ~bk_exists(bk, item) /\ ~bk_save(bk, item, SaveCall).ok,
            n |-> cb.n + 1,
            item0 |-> IF cb.n = 0 THEN item ELSE cb.item0,
            pre0 |-> IF cb.n = 0 THEN BkIdsOf(bk) ELSE cb.pre0]
  /\ UNCHANGED <<now, mem, last, concVars, saved, removed, canon, normVars, run, rk, dyn>>

InitCb ==
  /\ now = Epoch
  /\ mem = NoFile
  /\ last = NoCall
  /\ lock = NoProc
  /\ pc = [p \in Procs |-> "idle"]
  /\ loc = [p \in Procs |-> NoLoc]
  /\ committed = [r \in {} |-> 0]
  /\ nApp = 0
  /\ lastMod = NoMod
  /\ \E ids \in SeqsUpTo(BkIds \cup {"2"}, MaxLines) :
       bk \in (IF ids = <<>> THEN {NoFile} ELSE {})
               \cup {File(Flatten([i \in DOMAIN ids |-> BkRec(ids[i])]))}
  /\ saved = {}
  /\ removed = {}
  /\ canon = NoCanon
  /\ NormIdle
  /\ run = NoRun
  /\ AuxIdle

NextCb == \E item \in CbItems : HandleInteresting(item)

SpecCb == InitCb /\ [][NextCb]_vars

\* C28: the Interesting callback toggles the bookmark: after a callback for an
\* item that was not bookmarked the item is bookmarked, after a callback for a
\* bookmarked item it is not, and two successive callbacks for one item leave
\* the set of bookmarked items as it was.
C28_CallbackToggles ==
  cb.st = "handled" /\ cb.item # "" =>
    /\ bk_exists(bk, cb.item) = ~cb.was
    /\ cb.n = 2 /\ cb.item0 = cb.item => BkIdsOf(bk) = cb.pre0

\* ------------------------------------------- discover.py: dynamic authors
\* The clock counts hours; a cache entry holds the hour it was written, and
\* iso tells whether cached_at parses to an aware datetime (a string that does
\* not parse, or a naive one, raises inside the try and counts as a miss).
MaxFound == 10
MaxDynCalls == 3

DYN_AUTHORS_PER_CAT == 3
DYN_AUTHORS_CACHE_H == 24
CATEGORY_AUTHOR_SEARCH_TERMS == {"AI Marketing", "AI Coding", "AI Design", "General AI",
                                 "AI Business"}

Names(n) == [i \in 1..n |-> i]
Entry(usernames, at, iso) ==
  [present |-> TRUE, usernames |-> usernames, cached_at |-> at, iso |-> iso]

\* _search_users_by_keyword(keyword, limit) when the response lists n users of
\* at least 500 followers
_search_users_by_keyword(n, limit) == Names(IF n < limit THEN n ELSE limit)

CacheFresh(entry, clock) ==
  entry.present /\ entry.iso /\ clock - entry.cached_at < DYN_AUTHORS_CACHE_H

\* _get_dynamic_authors(category), start to return, over the cache file's
\* content; n is what the user search would find.
_get_dynamic_authors(cache, clock, category, n) ==
  IF CacheFresh(cache[category], clock)
  THEN [hit |-> TRUE, searches |-> 0, found |-> <<>>, cache |-> cache,
        ret |-> cache[category].usernames]
  ELSE IF category \notin CATEGORY_AUTHOR_SEARCH_TERMS
  THEN [hit |-> FALSE, searches |-> 0, found |-> <<>>, cache |-> cache, ret |-> <<>>]
  ELSE [hit |-> FALSE, searches |-> 1, found |-> _search_users_by_keyword(n, 30),
        cache |-> [cache EXCEPT ![category] =
                     Entry(_search_users_by_keyword(n, 30), clock, TRUE)],
        ret |-> Take(_search_users_by_keyword(n, 30), DYN_AUTHORS_PER_CAT * 3)]

dynOnly == <<now, mem, last, concVars, bkVars, canon, normVars, run, rk, cb>>

DynCall(category, r) ==
  /\ dyn' = [dyn EXCEPT !.st = "returned", !.category = category, !.hit = r.hit,
                        !.was = dyn.cache[category], !.found = r.found, !.ret = r.ret,
                        !.searches = r.searches, !.cache = r.cache, !.at = dyn.clock,
                        !.n = dyn.n + 1,
                        !.prev = [st |-> dyn.st, category |-> dyn.category,
                                  hit |-> dyn.hit, ret |-> dyn.ret, at |-> dyn.at]]
  /\ UNCHANGED dynOnly

GetDynamicAuthors ==
  /\ dyn.n < MaxDynCalls
  /\ \E category \in DynCats, n \in 0..MaxFound :
       DynCall(category, _get_dynamic_authors(dyn.cache, dyn.clock, category, n))

\* an hour passes between two runs of discover
DynTick ==
  /\ dyn.clock < DYN_AUTHORS_CACHE_H + MaxTick
  /\ dyn' = [dyn EXCEPT !.clock = dyn.clock + 1]
  /\ UNCHANGED dynOnly

InitDyn ==
  /\ now = Epoch
  /\ mem = NoFile
  /\ last = NoCall
  /\ ConcInit
  /\ canon = NoCanon
  /\ NormIdle
  /\ run = NoRun
  /\ rk = NoRank
  /\ cb = NoCb
  /\ \E e \in {NoEntry} \cup {Entry(<<0>>, at, iso) : at \in {0, 1}, iso \in BOOLEAN} :
       dyn = [NoDyn EXCEPT !.clock = DYN_AUTHORS_CACHE_H, !.cache["AI Coding"] = e]

NextDyn ==
  \/ GetDynamicAuthors
  \/ DynTick

SpecDyn == InitDyn /\ [][NextDyn]_vars

\* C29: a call that finds a cache entry for the category younger than
\* DYN_AUTHORS_CACHE_H hours returns the cached usernames without a search;
\* any other call runs the search once, stores its result with the current
\* time and returns the usernames the search returned; so a call right after
\* a miss returns the list the miss returned.
C29_CacheThenSearch ==
  dyn.st = "returned" =>
    /\ CacheFresh(dyn.was, dyn.at) =>
          dyn.searches = 0 /\ dyn.ret = dyn.was.usernames
    /\ ~CacheFresh(dyn.was, dyn.at) =>
          /\ dyn.searches = 1
          /\ dyn.cache[dyn.category] = Entry(dyn.found, dyn.at, TRUE)
          /\ dyn.ret = dyn.found
    /\ dyn.prev.st = "returned" /\ ~dyn.prev.hit /\ dyn.prev.category = dyn.category
         /\ dyn.prev.at = dyn.at => dyn.ret = dyn.prev.ret

====
